---------------------------- MODULE Spec2Model ----------------------------
(***************************************************************************)
(* A model of Polyglot: the controller REST client                         *)
(* (polyglot/element_manager/isy/__init__.py), the controller callback     *)
(* handlers (polyglot/element_manager/isy/incoming.py) and the node server *)
(* supervisor and router (polyglot/nodeserver_manager.py).                 *)
(***************************************************************************)
EXTENDS Integers, Sequences, FiniteSets, TLC

(***************************************************************************)
(* Bounds of the model.                                                    *)
(***************************************************************************)
\* calls of request() made in one run
MaxCalls == 2
\* largest value PG_RETRIES is given in the environment
MaxPgRetries == 4
\* largest elapsed time of one attempt (abstract units, at least 1)
MaxElapsed == 1
\* lines the node servers write in one run
MaxLines == 3
\* seconds the clock advances in one tick, and the time a run ends at
TickLen == 15
MaxTime == 33
\* controller callbacks received in one run
MaxHttp == 2
\* calls of start_server in one run
MaxStarts == 1
\* calls of restart() in one run
MaxRestarts == 1
\* bytes of a password, and calls of update() in one run
MaxPwLen == 3
MaxUpdates == 1
\* characters of a node address
MaxAddrLen == 3
\* messages a request queue holds, Queue(maxsize=4096) in the program
RqqSize == 2
\* calls of register_result_cb, and results handled by on_result
MaxRegs == 3
MaxResults == 3

(***************************************************************************)
(* Program constants.                                                      *)
(***************************************************************************)
\* SESSION = None
\* self._seq = 1000
SeqStart == 1000
NoSession == 0
\* the value of a lock nobody holds
NoThread == 0
\* int(os.environ.get('PG_RETRIES', '3'))
DefaultRetries == 3
\* status codes of the transport-layer failures
ScTimeout == 1
ScHTTPError == 2
ScURLRequired == 3
ScConnectionError == 4
\* the HTTP statuses request() tells apart
HttpOK == 200
HttpBusy == 503
\* some other HTTP status
HttpNotFound == 404
\* time.sleep() arguments of the retry ladder, in milliseconds
Delay1 == 250
Delay2 == 1000
Delay3 == 2000
DelayN == 3000
\* self._lastping = None, self._lastpong = None
NoTime == -1
\* arguments.get('seq', None) of a message without seq
NoSeq == -1
\* NSMGR = None
NoMgr == 0
\* a ping expires after 30 seconds
PingExpiry == 30
\* NS_QUIT_WAIT_TIME = 5
NS_QUIT_WAIT_TIME == 5
\* self.node_server = None
NoServer == 0
\* a base no node server is registered under
UnknownBase == 9
\* the handler has not replied yet
NoReply == 0
\* zfill(3) of add_node_prefix, and node_address[5:] of rem_node_prefix
PrefixDigits == 3
PrefixLen == 5
\* "for _ in range(5)" of ConfigManager.write
WriteTries == 5
\* the character '=' that pads base64 text
B64Pad == 61

VARIABLES
    \* ---- controller REST client (isy/__init__.py) ----
    PG_RETRIES,    \* the environment's PG_RETRIES: -1 when unset
    no_sessions,   \* 'PG_NOSESSIONS' in os.environ
    SESSION,       \* the shared session: NoSession or a session id
    SLOCK,         \* holder of the stats mutex, NoThread when free
    STATS,         \* the diagnostic counters
    ncalls,        \* calls of request() started so far
    rq,            \* per worker: the frame of its request()/get_stats() call
    \* ---- node server manager (nodeserver_manager.py) ----
    servers,       \* NodeServerManager.servers: the registered bases
    ns,            \* per node server: the fields of its NodeServer object
    NSMGR,         \* profile number of the stats-privileged server, or NoMgr
    now,           \* time.time(), in seconds
    nlines,        \* lines the node servers have written so far
    ul,            \* the frame of NodeServerManager.unload()
    \* ---- controller callbacks (isy/incoming.py) ----
    hq,            \* per callback: the fields of its handler object
    \* ---- history ----
    announced,     \* the profile numbers that announced IAmManager, in order
    \* ---- registry calls and configuration (config_manager.py) ----
    mg,            \* the frame of start_server()/delete() and its last call
    cf,            \* the ConfigManager: flag, tree, file, writer threads
    \* ---- node addresses (isy/__init__.py, isy/incoming.py) ----
    px,            \* a node address on its way to the controller and back
    \* ---- node server library (nodeserver_api.py) ----
    api            \* a NodeServer of the library: counter, lock, callbacks

pxrest0 == <<PG_RETRIES, no_sessions, SESSION, SLOCK, STATS, ncalls, rq,
             servers, ns, NSMGR, now, nlines, ul, hq, announced, mg, cf, px>>
restvars == <<PG_RETRIES, no_sessions, SESSION, SLOCK, ncalls, rq>>
nsvars == <<servers, ns, NSMGR, now, nlines, ul, hq, announced, mg, cf, px, api>>
vars == <<PG_RETRIES, no_sessions, SESSION, SLOCK, STATS, ncalls, rq,
          servers, ns, NSMGR, now, nlines, ul, hq, announced, mg, cf, px, api>>

\* the threads that call request() and get_stats(): two request handlers
Workers == {1, 2}

Min(a, b) == IF a < b THEN a ELSE b

(***************************************************************************)
(* Outcomes of one upstream GET: an HTTP status, or one of the exceptions  *)
(* request() catches.                                                      *)
(***************************************************************************)
HttpCodes == {HttpOK, HttpNotFound, HttpBusy}

Outcomes ==
    [exc : {"none"}, status : HttpCodes]
    \cup [exc : {"Timeout", "HTTPError", "URLRequired", "ConnectionError"},
          status : {0}]

\* the zeroed counters (module level STATS, and get_stats(clear=True))
ZeroStats ==
    [ntotal |-> 0, rtotal |-> 0, oktotal |-> 0, ertotal |-> 0,
     ettotal |-> 0, ethigh |-> 0, etlow |-> 0]

\* the locals of a call that has not started
IdleFrame ==
    [pc |-> "idle",
     max_retries |-> 0, text_needed |-> FALSE, noretry |-> FALSE, seq |-> 0,
     retries |-> 0, retry |-> FALSE, s |-> NoSession, created |-> FALSE,
     text |-> "null", scode |-> 0, elapsed |-> 0,
     \* history of the current call
     attempts |-> 0, failures |-> 0, delays |-> <<>>,
     lastout |-> [exc |-> "none", status |-> 0],
     failed |-> NoSession, seen |-> NoSession,
     \* history: the call came through restcall() with noretry=True
     rc_noretry |-> FALSE,
     clear |-> FALSE,
     \* history of get_stats(): the counters when the mutex was taken, the
     \* counters the caller finds in the record returned to it
     snap |-> ZeroStats, got |-> ZeroStats, used |-> FALSE,
     result |-> [text |-> "null", status_code |-> 0, seq |-> 0,
                 elapsed |-> 0, retries |-> 0]]

\* max_retries = int(os.environ.get('PG_RETRIES', '3')); 0 with noretry
MaxRetriesOf(noretry) ==
    IF noretry THEN 0
    ELSE IF PG_RETRIES = -1 THEN DefaultRetries ELSE PG_RETRIES

\* a ladder whose second and third rungs are swapped
RetryDelaySwapped(retries) ==
    IF retries = 1 THEN Delay1
    ELSE IF retries = 2 THEN Delay3
    ELSE IF retries = 3 THEN Delay2
    ELSE IF retries > 3 THEN DelayN
    ELSE 0

\* the delay at the top of the retry loop, in milliseconds (0: none)
RetryDelay(retries) ==
    IF retries = 1 THEN Delay1
    ELSE IF retries = 2 THEN Delay2
    ELSE IF retries = 3 THEN Delay3
    ELSE IF retries > 3 THEN DelayN
    ELSE 0

\* scode of one attempt
StatusCode(o) ==
    CASE o.exc = "none" -> o.status
      [] o.exc = "Timeout" -> ScTimeout
      [] o.exc = "HTTPError" -> ScHTTPError
      [] o.exc = "URLRequired" -> ScURLRequired
      [] o.exc = "ConnectionError" -> ScConnectionError

\* a loop that also retries a timeout
RetryableWithTimeout(o) ==
    \/ o.exc = "none" /\ o.status = HttpBusy
    \/ o.exc = "ConnectionError"
    \/ o.exc = "Timeout"

\* retry = True: HTTP 503 and ConnectionError
Retryable(o) ==
    \/ o.exc = "none" /\ o.status = HttpBusy
    \/ o.exc = "ConnectionError"

\* text after one attempt: req.text when text_needed, repr(err) on a
\* ConnectionError, None otherwise
TextOf(o, text_needed) ==
    IF o.exc = "none" THEN (IF text_needed THEN "body" ELSE "null")
    ELSE IF o.exc = "ConnectionError" THEN "repr(err)"
    ELSE "null"

\* a handler that leaves the failed session in place
SessionAfterKept(o, cur) == cur

\* SESSION after one attempt
SessionAfter(o, cur) ==
    IF o.exc = "ConnectionError" THEN NoSession ELSE cur

\* a limit that is checked with >= instead of >
RetryAfterOffByOne(o, retries, max_retries) ==
    IF retries >= max_retries THEN FALSE ELSE Retryable(o)

\* "if retries > max_retries: retry = False"
RetryAfter(o, retries, max_retries) ==
    IF retries > max_retries THEN FALSE ELSE Retryable(o)

\* the sessions some worker or the global still refers to
LiveSessions ==
    {SESSION} \cup {rq[t].s : t \in Workers} \cup {rq[t].failed : t \in Workers}

\* requests.Session(): an object that is none of the live ones (the least
\* free identity)
NewSession ==
    CHOOSE n \in 1..(Cardinality(LiveSessions) + 1) :
        /\ n \notin LiveSessions
        /\ \A m \in 1..(n - 1) : m \in LiveSessions

(***************************************************************************)
(* request(): lines 259-418                                                *)
(***************************************************************************)
\* entry: overrides from the environment, retries = 0, retry = True
ReqStart(t, text_needed, noretry, seq) ==
    /\ rq[t].pc = "idle"
    /\ ncalls < MaxCalls
    /\ ncalls' = ncalls + 1
    /\ rq' = [rq EXCEPT ![t] =
                [IdleFrame EXCEPT
                    !.pc = "top",
                    !.max_retries = MaxRetriesOf(noretry),
                    !.text_needed = text_needed, !.noretry = noretry,
                    !.seq = seq,
                    !.retries = 0, !.retry = TRUE]]
    /\ UNCHANGED <<PG_RETRIES, no_sessions, SESSION, SLOCK, STATS>>

\* restcall(ns_profnum, api, timeout, seq, noretry): "return
\* request(ns_profnum, url, timeout, seq, text_needed=True)", the entry of
\* request() with its own default for noretry
RestCall(t, seq, noretry) ==
    /\ rq[t].pc = "idle"
    /\ ncalls < MaxCalls
    /\ ncalls' = ncalls + 1
    /\ rq' = [rq EXCEPT ![t] =
                [IdleFrame EXCEPT
                    !.pc = "top",
                    !.max_retries = MaxRetriesOf(FALSE),
                    !.text_needed = TRUE, !.noretry = FALSE,
                    !.seq = seq,
                    !.retries = 0, !.retry = TRUE,
                    !.rc_noretry = noretry]]
    /\ UNCHANGED <<PG_RETRIES, no_sessions, SESSION, SLOCK, STATS>>

\* top of "while retry": the delay, text = None, retry = False, and then
\* "s = SESSION; if s is None: s = requests.Session()"
ReqLoopTop(t) ==
    /\ rq[t].pc = "top"
    /\ LET f == [rq[t] EXCEPT
                    !.delays = IF RetryDelay(rq[t].retries) = 0 THEN @
                               ELSE Append(@, RetryDelay(rq[t].retries)),
                    !.text = "null",
                    !.retry = FALSE]
       IN IF no_sessions
          THEN rq' = [rq EXCEPT ![t] =
                            [f EXCEPT !.pc = "get", !.s = NoSession,
                                      !.seen = NoSession, !.created = FALSE]]
          ELSE IF SESSION = NoSession
          THEN rq' = [rq EXCEPT ![t] =
                            [f EXCEPT !.pc = "install", !.s = NewSession,
                                      !.seen = NoSession, !.created = TRUE]]
          ELSE rq' = [rq EXCEPT ![t] =
                            [f EXCEPT !.pc = "get", !.s = SESSION,
                                      !.seen = SESSION, !.created = FALSE]]
    /\ UNCHANGED <<ncalls, PG_RETRIES, no_sessions, SESSION, SLOCK, STATS>>

\* "SESSION = s"
ReqInstallSession(t) ==
    /\ rq[t].pc = "install"
    /\ SESSION' = rq[t].s
    /\ rq' = [rq EXCEPT ![t].pc = "get"]
    /\ UNCHANGED <<ncalls, PG_RETRIES, no_sessions, SLOCK, STATS>>

\* the GET and what follows it in the loop body: scode, retry, text, the
\* invalidation of SESSION, "retries += 1" and the limit
ReqAttempt(t, o, el) ==
    /\ rq[t].pc = "get"
    /\ SESSION' = SessionAfter(o, SESSION)
    /\ LET r == rq[t].retries + 1
           again == RetryAfter(o, r, rq[t].max_retries)
       IN rq' = [rq EXCEPT
                ![t].pc = IF again THEN "top" ELSE "stats",
                ![t].scode = StatusCode(o),
                ![t].text = TextOf(o, rq[t].text_needed),
                ![t].elapsed = el,
                ![t].retry = again,
                \* "retries -= 1" once the loop is left
                ![t].retries = IF again THEN r ELSE r - 1,
                ![t].attempts = @ + 1,
                ![t].failures = IF Retryable(o) THEN @ + 1 ELSE @,
                ![t].lastout = o,
                ![t].failed = IF o.exc = "ConnectionError" THEN rq[t].s
                              ELSE NoSession]
    /\ UNCHANGED <<ncalls, PG_RETRIES, no_sessions, SLOCK, STATS>>

\* the counters after the first assignments under the mutex
StatsTotals(st, elapsed, retries) ==
    [st EXCEPT !.ntotal = @ + 1,
               !.ettotal = @ + elapsed,
               !.rtotal = @ + retries]

\* the counters after the remaining assignments under the mutex
StatsOkEr(st, scode, elapsed) ==
    [st EXCEPT !.oktotal = IF scode = HttpOK THEN @ + 1 ELSE @,
               !.ertotal = IF scode = HttpOK THEN @ ELSE @ + 1,
               !.ethigh = IF @ < elapsed THEN elapsed ELSE @,
               !.etlow = IF @ > elapsed \/ @ = 0 THEN elapsed ELSE @]

\* an update of the counters that does not take the mutex
ReqLockNotTaken(t) == NoThread

\* the mutex as request() takes it: SLOCK.acquire()
ReqLock(t) == t

\* SLOCK.acquire(), then ntotal, ettotal, rtotal
ReqStatsBegin(t) ==
    /\ rq[t].pc = "stats"
    /\ SLOCK = NoThread
    /\ SLOCK' = ReqLock(t)
    /\ STATS' = StatsTotals(STATS, rq[t].elapsed, rq[t].retries)
    /\ rq' = [rq EXCEPT ![t].pc = "stats_mid"]
    /\ UNCHANGED <<ncalls, PG_RETRIES, no_sessions, SESSION>>

\* oktotal or ertotal, ethigh, etlow, SLOCK.release() and the return of the
\* result record
ReqReturn(t) ==
    /\ rq[t].pc = "stats_mid"
    /\ STATS' = StatsOkEr(STATS, rq[t].scode, rq[t].elapsed)
    /\ SLOCK' = NoThread
    /\ rq' = [rq EXCEPT
                ![t].pc = "done",
                ![t].result = [text |-> rq[t].text,
                               status_code |-> rq[t].scode,
                               seq |-> rq[t].seq,
                               elapsed |-> rq[t].elapsed,
                               retries |-> rq[t].retries]]
    /\ UNCHANGED <<ncalls, PG_RETRIES, no_sessions, SESSION>>

\* the caller takes the result record; the frame is gone
ReqDone(t) ==
    /\ rq[t].pc = "done"
    /\ rq' = [rq EXCEPT ![t] = IdleFrame]
    /\ UNCHANGED <<ncalls, PG_RETRIES, no_sessions, SESSION, SLOCK, STATS>>

(***************************************************************************)
(* get_stats(): lines 421-440                                              *)
(***************************************************************************)
\* the first assignments of "if clear:"
ClearTotals(st) == [st EXCEPT !.ntotal = 0, !.rtotal = 0, !.oktotal = 0]

\* the remaining assignments of "if clear:"
ClearRest(st) ==
    [st EXCEPT !.ertotal = 0, !.ettotal = 0, !.ethigh = 0, !.etlow = 0]

\* SLOCK.acquire(); st = STATS
GetStatsAcquire(t, clear) ==
    /\ rq[t].pc = "idle"
    /\ SLOCK = NoThread
    /\ SLOCK' = t
    /\ rq' = [rq EXCEPT ![t].pc = "gs", ![t].clear = clear,
                        ![t].snap = STATS, ![t].got = ZeroStats,
                        ![t].used = FALSE]
    /\ UNCHANGED <<ncalls, PG_RETRIES, no_sessions, SESSION, STATS>>

\* "if clear:" ntotal, rtotal, oktotal
GetStatsClear(t) ==
    /\ rq[t].pc = "gs"
    /\ STATS' = IF rq[t].clear THEN ClearTotals(STATS) ELSE STATS
    /\ rq' = [rq EXCEPT ![t].pc = "gs_mid"]
    /\ UNCHANGED <<ncalls, PG_RETRIES, no_sessions, SESSION, SLOCK>>

\* ertotal, ettotal, ethigh, etlow; SLOCK.release()
GetStatsRelease(t) ==
    /\ rq[t].pc = "gs_mid"
    /\ STATS' = IF rq[t].clear THEN ClearRest(STATS) ELSE STATS
    /\ SLOCK' = NoThread
    /\ rq' = [rq EXCEPT ![t].pc = "gs_ret"]
    /\ UNCHANGED <<ncalls, PG_RETRIES, no_sessions, SESSION>>

\* "return st": st is the dictionary STATS itself, so the caller that reads
\* the record returned to it reads the counters of that moment
GetStatsUse(t) ==
    /\ rq[t].pc = "gs_ret"
    /\ rq' = [rq EXCEPT ![t].pc = "idle", ![t].clear = FALSE,
                        ![t].got = STATS, ![t].used = TRUE]
    /\ UNCHANGED <<ncalls, PG_RETRIES, no_sessions, SESSION, SLOCK, STATS>>

(***************************************************************************)
(* The node server manager: data.                                          *)
(***************************************************************************)
\* the node servers, each named by its base; its profile number is the same
Servers == {1, 2}

\* a message {cmd: {seq: .., ..}}: ok tells whether the arguments fit the
\* handler's parameters, arg carries 'op' of manager and 'clear' of statistics
Msg(cmd, seq, ok, arg) == [cmd |-> cmd, seq |-> seq, ok |-> ok, arg |-> arg]

NoMsg == Msg("", NoSeq, TRUE, "")

\* self._handlers: the commands that are REST calls
RestCmds == {"status", "command", "add", "change", "remove", "restcall",
             "request"}

\* the record of no call having returned / no kill having happened
NoReturn == [seq |-> NoSeq, out |-> "", alive |-> FALSE]
NoKill == [dt |-> NoTime, newer |-> FALSE, warned |-> FALSE, pinged |-> FALSE,
           unacked |-> 0]

\* the record of responding not having been evaluated
NoCheck == [done |-> FALSE, ok |-> FALSE, first |-> FALSE, expired |-> FALSE,
            newer |-> FALSE, outstanding |-> FALSE, linked |-> FALSE]

\* the record of no line having been read
NoLine == [no |-> 0, cmd |-> "", out |-> ""]

\* the record of no reset of the counters having been made for a node server
NoReset == [done |-> FALSE, ntotal |-> 0, priv |-> FALSE]

\* the NodeServer object when __init__ (and so start()) has returned
NewServer(n, interface, raced) ==
    [profile_number |-> n,
     interface      |-> interface,
     proc           |-> "running",
     inq_none       |-> FALSE,
     inq            |-> << Msg("params", NoSeq, TRUE, ""),
                           Msg("config", NoSeq, TRUE, "") >>,
     rqq_none       |-> FALSE,
     rqq            |-> << >>,
     mqtt_none      |-> interface # "mqtt",
     mqtt_connected |-> FALSE,
     node_connected |-> FALSE,
     lastping       |-> NoTime,
     lastpong       |-> NoTime,
     config         |-> "",
     stdin_thread   |-> IF interface = "mqtt" /\ ~raced THEN "mqtt_wait"
                        ELSE "stdio",
     stdout_thread  |-> "reading",
     req_thread     |-> "wait",
     cur            |-> NoMsg,
     unfinished     |-> 0,
     \* the request thread of the run before restart(), and its call
     old_thread     |-> "none",
     old_cur        |-> NoMsg,
     \* the stdin thread of the run before restart()
     old_stdin      |-> "none",
     childin        |-> << >>,
     published      |-> << >>,
     \* history: the last REST call that returned, the pings sent since the
     \* last pong, the kill by the liveness check, the last reset of the
     \* counters made by a line of this node server, the last line read and
     \* what became of it, the malformed lines read and whether a line was
     \* handled after one
     line           |-> NoLine,
     nbad           |-> 0,
     afterbad       |-> FALSE,
     \* history: which of two calls in flight was begun first, and whether
     \* a call has returned while one begun before it was in flight
     older          |-> "none",
     outoforder     |-> FALSE,
     lastret        |-> NoReturn,
     unacked        |-> 0,
     killed         |-> NoKill,
     \* the message the reader waits to put on the full request queue, and
     \* history: how its last wait ended
     pending        |-> NoMsg,
     putout         |-> "",
     \* send_exit() has handed the exit command to the transport of this run
     exit_sent      |-> FALSE,
     \* history: the calls of pglot.update_config() made for config lines,
     \* and those of them made after send_exit()
     saves          |-> 0,
     latesaves      |-> 0,
     \* history: the outbound messages that were waiting when the node
     \* server's exit line was handled
     undelivered    |-> 0,
     \* the thread that reads the definition property: where it is in
     \* responding
     ev             |-> "idle",
     \* history: the last evaluation of responding that returned
     checked        |-> NoCheck,
     \* history: start() has run again on this object while its profile
     \* number was the recorded manager
     mgr_at_start   |-> FALSE,
     reset          |-> NoReset]

\* _mk_cmd: hand message m to the node server's transport.  out tells what
\* became of it: published to the broker, queued for stdin, dropped, or an
\* AttributeError raised (node_connected with no MQTT subsystem)
MkCmd(r, m) ==
    IF r.node_connected
    THEN IF r.mqtt_none
         THEN [r |-> r, out |-> "raised"]
         ELSE [r |-> [r EXCEPT !.published = Append(@, m)],
               out |-> "published"]
    ELSE IF ~r.inq_none
         THEN [r |-> [r EXCEPT !.inq = Append(@, m)], out |-> "queued"]
         ELSE [r |-> r, out |-> "dropped"]

Ping == Msg("ping", NoSeq, TRUE, "")

\* send_ping
SendPing(r) ==
    LET mk == MkCmd(r, Ping) IN
    [r |-> IF mk.out \in {"queued", "published"}
           THEN [mk.r EXCEPT !.unacked = @ + 1] ELSE mk.r,
     out |-> mk.out]

\* the alive property: os.kill(pid, 0) raises the lookup error (gone) only
\* for a process that has ended and been reaped
Alive(r, gone) == IF gone THEN FALSE ELSE ~r.inq_none

\* the outcomes of os.kill(pid, 0) for the process of r
Gone(r) == IF r.proc = "running" THEN {FALSE} ELSE BOOLEAN

\* a ping sent at lastping has expired at time t
ExpiredAtOnce(t, lastping) == t - lastping >= 0

Expired(t, lastping) == t - lastping >= PingExpiry

\* a pong has been recorded, whatever its time
PongEver(r) == r.lastpong # NoTime

\* "self._lastpong and self._lastpong > self._lastping"
PongNewer(r) == r.lastpong # NoTime /\ r.lastpong > r.lastping

\* the responding property, evaluated at time t: the new fields, the value
\* returned, and whether it warned, sent a ping, or raised
Responding(r, t) ==
    IF r.lastping = NoTime
    THEN LET mk == SendPing(r) IN
         IF mk.out = "raised"
         THEN [r |-> r, ok |-> TRUE, warned |-> FALSE, pinged |-> FALSE,
               raised |-> TRUE]
         ELSE [r |-> [mk.r EXCEPT !.lastping = t], ok |-> TRUE,
               warned |-> FALSE, pinged |-> TRUE, raised |-> FALSE]
    ELSE IF Expired(t, r.lastping)
    THEN IF ~r.mqtt_none /\ (~r.mqtt_connected \/ ~r.node_connected)
         THEN [r |-> r, ok |-> TRUE, warned |-> FALSE, pinged |-> FALSE,
               raised |-> FALSE]
         ELSE IF PongNewer(r)
         THEN LET r1 == [r EXCEPT !.lastping = t]
                  mk == SendPing(r1) IN
              [r |-> mk.r, ok |-> TRUE, warned |-> FALSE,
               pinged |-> mk.out # "raised", raised |-> mk.out = "raised"]
         ELSE [r |-> r, ok |-> FALSE, warned |-> TRUE, pinged |-> FALSE,
               raised |-> FALSE]
    ELSE [r |-> r, ok |-> TRUE, warned |-> FALSE, pinged |-> FALSE,
          raised |-> FALSE]

(***************************************************************************)
(* The node server manager: the threads of one node server.                *)
(***************************************************************************)
\* the fields of r when its process has been killed as unresponsive or for
\* a broken pipe by the stdin thread in its stdio loop
StdioKilled(r) ==
    [r EXCEPT !.inq_none = TRUE, !.inq = << >>, !.rqq_none = TRUE,
              !.rqq = << >>, !.unfinished = 0, !.proc = "dead",
              !.stdin_thread = "ended"]

\* the commands _recv_out handles itself
ControlCmds == {"pong", "config", "install", "manager", "statistics", "exit",
                "connected", "disconnected"}

\* a request queue without a limit
QueueNeverFull(r) == FALSE

\* a request queue that holds one message
QueueOfOne(r) == Len(r.rqq) >= 1

\* Queue.full() of the request queue
QueueFull(r) == Len(r.rqq) >= RqqSize

\* any command is put on the request queue while there is one
EnqueuesAny(r, m) == ~r.rqq_none

\* "if fun and self._rqq: self._rqq.put(message, True, 30)"
Enqueues(r, m) == m.cmd \in RestCmds /\ ~r.rqq_none

\* the line is taken for the node server's last word
RecvMalformedAsExit(r) ==
    [r EXCEPT !.node_connected = FALSE, !.proc = "dead",
              !.inq_none = TRUE, !.inq = << >>,
              !.rqq_none = TRUE, !.rqq = << >>]

\* _recv_out with a line that is not JSON: json.loads raises ValueError
\* before any field is assigned
RecvMalformed(r) == r

\* the reader of the child's stdout after its callback raised for a line:
\* the line is logged and dropped, the reader reads on
ReaderAfterError(th) == th

\* _recv_out: what becomes of message m: handled as a command of its own,
\* queued for the request thread, logged as a bad command and dropped, or
\* an exception raised
LineOutcome(r, m) ==
    IF m.cmd = "install" THEN "raised"
    ELSE IF m.cmd = "statistics"
    THEN IF ~m.ok \/ MkCmd(r, Msg("statistics", NoSeq, TRUE, "")).out = "raised"
         THEN "raised" ELSE "handled"
    ELSE IF m.cmd = "connected"
    THEN IF SendPing([r EXCEPT !.node_connected = TRUE]).out = "raised"
         THEN "raised" ELSE "handled"
    ELSE IF m.cmd \in ControlCmds THEN "handled"
    ELSE IF Enqueues(r, m)
    THEN IF QueueFull(r) THEN "blocked" ELSE "queued"
    ELSE "bad"

\* the exit line is handled after the waiting outbound messages have been
\* written to the node server
ExitDrained(r) ==
    [r EXCEPT !.node_connected = FALSE, !.proc = "dead",
              !.childin = @ \o r.inq,
              !.inq_none = TRUE, !.inq = << >>,
              !.rqq_none = TRUE, !.rqq = << >>, !.unfinished = 0]

\* _recv_out, command exit: "self._proc.kill(); self._inq = None;
\* self._rqq = None"
ExitHandled(r) ==
    [r EXCEPT !.node_connected = FALSE, !.proc = "dead",
              !.undelivered = Len(r.inq),
              !.inq_none = TRUE, !.inq = << >>,
              !.rqq_none = TRUE, !.rqq = << >>, !.unfinished = 0]

\* a config line is dropped once the exit command has been sent
ConfigDroppedAfterExit(r, m) ==
    IF r.exit_sent THEN r
    ELSE [r EXCEPT !.config = m.arg, !.saves = @ + 1]

\* _recv_out, command config: "self.config = arguments;
\* self.pglot.update_config()"
ConfigHandled(r, m) ==
    [r EXCEPT !.config = m.arg, !.saves = @ + 1,
              !.latesaves = IF r.exit_sent THEN @ + 1 ELSE @]

\* send_exit() has returned for the message handed to _mk_cmd with outcome
\* out: the exit command is on its way to the node server
ExitSent(out) == out \in {"queued", "published"}

\* _recv_out, the direct commands: the fields of r after message m at time t
RecvDirect(r, m, t) ==
    CASE m.cmd = "pong" -> [r EXCEPT !.lastpong = t, !.unacked = 0]
      [] m.cmd = "config" -> ConfigHandled(r, m)
      [] m.cmd = "exit" -> ExitHandled(r)
      [] m.cmd = "connected" ->
            SendPing([r EXCEPT !.node_connected = TRUE]).r
      [] m.cmd = "disconnected" -> [r EXCEPT !.node_connected = FALSE]
      [] Enqueues(r, m) ->
            IF QueueFull(r)
            THEN [r EXCEPT !.pending = m, !.stdout_thread = "blocked"]
            ELSE [r EXCEPT !.rqq = Append(@, m), !.unfinished = @ + 1]
      [] OTHER -> r

\* the manager operation IAmManager that leaves a recorded manager alone
ManagerKeepFirst(mgr, r, m) ==
    IF m.cmd = "manager" /\ m.arg = "IAmManager" /\ mgr = NoMgr
    THEN r.profile_number ELSE mgr

\* a manager command that records its sender whatever the operation
ManagerAnyOp(mgr, r, m) ==
    IF m.cmd = "manager" THEN r.profile_number ELSE mgr

\* _recv_out, command manager: the recorded manager after message m of r
Manager(mgr, r, m) ==
    IF m.cmd = "manager" /\ m.arg = "IAmManager"
    THEN r.profile_number ELSE mgr

\* get_stats(clear=True) is reached by message m of r
ClearsStats(mgr, r, m) ==
    \/ m.cmd = "manager" /\ m.arg = "ClearStatistics"
                         /\ r.profile_number = mgr
    \/ m.cmd = "statistics" /\ m.ok /\ m.arg = "clear"

\* _recv_out: the NodeServer object of n when its line, parsed to message m,
\* has been handled
Received(n, m) ==
    [(IF m.cmd = "statistics"
      THEN IF m.ok
           THEN MkCmd(ns[n], Msg("statistics", NoSeq, TRUE, "")).r
           ELSE ns[n]
      ELSE RecvDirect(ns[n], m, now))
     EXCEPT !.reset =
        IF ClearsStats(NSMGR, ns[n], m)
        THEN [done |-> TRUE, ntotal |-> STATS.ntotal,
              priv |-> ns[n].profile_number = NSMGR]
        ELSE @,
            !.stdout_thread =
        IF LineOutcome(ns[n], m) = "raised"
        THEN ReaderAfterError(@) ELSE @,
            !.line = [no |-> nlines + 1, cmd |-> m.cmd,
                      out |-> LineOutcome(ns[n], m)],
            !.afterbad = @ \/ ns[n].nbad > 0]

\* _recv_out: one line of node server n, parsed to message m, is handled
RecvOut(n, m) ==
    /\ nlines < MaxLines
    /\ m.cmd = "pong" => now < MaxTime
    /\ ns[n].proc = "running"
    /\ ns[n].stdout_thread = "reading"
    /\ m.cmd \in {"manager", "statistics"} => SLOCK = NoThread
    /\ nlines' = nlines + 1
    /\ now' = IF m.cmd = "pong" THEN now + 1 ELSE now
    /\ NSMGR' = Manager(NSMGR, ns[n], m)
    /\ STATS' = IF ClearsStats(NSMGR, ns[n], m)
                THEN ClearRest(ClearTotals(STATS)) ELSE STATS
    /\ ns' = [ns EXCEPT ![n] = Received(n, m)]
    /\ announced' = IF m.cmd = "manager" /\ m.arg = "IAmManager"
                    THEN Append(announced, ns[n].profile_number)
                    ELSE announced
    /\ UNCHANGED <<servers, ul, hq, mg, cf, px, api>>
    /\ UNCHANGED restvars

\* the same message m reaches _recv_out of every node server, from the
\* stdout of the one and from the broker for the other
RecvBoth(m) ==
    /\ nlines < MaxLines
    /\ m.cmd \notin {"manager", "statistics"}
    /\ m.cmd = "pong" => now < MaxTime
    /\ \A n \in Servers :
          ns[n].proc = "running" /\ ns[n].stdout_thread = "reading"
    /\ nlines' = nlines + 1
    /\ now' = IF m.cmd = "pong" THEN now + 1 ELSE now
    /\ ns' = [n \in Servers |-> Received(n, m)]
    /\ UNCHANGED <<servers, NSMGR, STATS, announced, ul, hq, mg, cf, px, api>>
    /\ UNCHANGED restvars

\* "self._rqq.put(message, True, 30)" on a full queue: the request thread
\* has taken a message, the reader's message goes on the queue and
\* _recv_out returns
PutDone(n) ==
    /\ ns[n].stdout_thread = "blocked"
    /\ ~ns[n].rqq_none
    /\ ~QueueFull(ns[n])
    /\ ns' = [ns EXCEPT ![n].rqq = Append(@, ns[n].pending),
                        ![n].unfinished = @ + 1,
                        ![n].pending = NoMsg,
                        ![n].putout = "waited",
                        ![n].stdout_thread = "reading"]
    /\ UNCHANGED <<servers, NSMGR, now, nlines, ul, hq, STATS, announced, mg, cf, px, api>>
    /\ UNCHANGED restvars

\* "self._rqq.put(message, True, 30)" on a queue that stays full (or that
\* nobody reads any more) for 30 seconds: put raises Full, the message is
\* lost and the exception leaves _recv_out
PutTimeout(n) ==
    /\ ns[n].stdout_thread = "blocked"
    /\ ns[n].rqq_none \/ QueueFull(ns[n])
    /\ ns' = [ns EXCEPT ![n].pending = NoMsg,
                        ![n].putout = "full",
                        ![n].stdout_thread = ReaderAfterError("reading")]
    /\ UNCHANGED <<servers, NSMGR, now, nlines, ul, hq, STATS, announced, mg, cf, px, api>>
    /\ UNCHANGED restvars

\* a line of node server n that is not JSON is read and handed to _recv_out
RecvBad(n) ==
    /\ nlines < MaxLines
    /\ ns[n].proc = "running"
    /\ ns[n].stdout_thread = "reading"
    /\ nlines' = nlines + 1
    /\ ns' = [ns EXCEPT ![n] =
                [RecvMalformed(ns[n]) EXCEPT
                    !.stdout_thread = ReaderAfterError(@),
                    !.nbad = @ + 1]]
    /\ UNCHANGED <<servers, NSMGR, now, ul, hq, STATS, announced, mg, cf, px, api>>
    /\ UNCHANGED restvars

\* the node server's process ends by itself
ProcExit(n) ==
    /\ ns[n].proc = "running"
    /\ ns' = [ns EXCEPT ![n].proc = "dead"]
    /\ UNCHANGED <<servers, NSMGR, now, nlines, ul, hq, STATS, announced, mg, cf, px, api>>
    /\ UNCHANGED restvars

\* _request_handler: take the next message and call its handler; arguments
\* that do not fit the handler's parameters raise TypeError in the thread
ReqHandlerGet(n) ==
    /\ ns[n].req_thread = "wait"
    /\ ~ns[n].rqq_none
    /\ ns[n].rqq # << >>
    /\ LET m == Head(ns[n].rqq) IN
       ns' = [ns EXCEPT ![n].rqq = Tail(@),
                        ![n].cur = IF m.ok THEN m ELSE NoMsg,
                        ![n].req_thread = IF m.ok THEN "call" ELSE "dead",
                        ![n].older = IF m.ok /\ ns[n].old_thread = "call"
                                     THEN "old" ELSE @]
    /\ UNCHANGED <<servers, NSMGR, now, nlines, ul, hq, STATS, announced, mg, cf, px, api>>
    /\ UNCHANGED restvars

\* 'if seq and result': the result goes out for these seq
SeqTruthy(seq) == seq # NoSeq /\ seq # 0

\* "if self._rqq: self._rqq.task_done()" and the test of the loop: the
\* thread waits for the next message, or ends (the queue is gone, or
\* task_done raises ValueError for a queue with nothing unfinished)
AfterTaskDone(r) ==
    IF r.rqq_none \/ r.unfinished = 0 THEN "dead" ELSE "wait"

\* _request_handler: the REST call returns with status sc; the result is
\* handed to _mk_cmd
ReqHandlerReturn(n, sc) ==
    /\ ns[n].req_thread = "call"
    /\ SLOCK = NoThread
    /\ LET r == ns[n]
           m == r.cur
           mk == IF SeqTruthy(m.seq)
                 THEN MkCmd(r, Msg("result", m.seq, TRUE, ""))
                 ELSE [r |-> r, out |-> "none"]
       IN ns' = [ns EXCEPT ![n] =
                   [mk.r EXCEPT
                      !.cur = NoMsg,
                      !.req_thread = IF mk.out = "raised" THEN "dead"
                                     ELSE AfterTaskDone(r),
                      !.unfinished = IF mk.out # "raised" /\ @ > 0
                                     THEN @ - 1 ELSE @,
                      !.outoforder = @ \/ (r.old_thread = "call"
                                            /\ r.older = "old"),
                      !.older = "none",
                      !.lastret = [seq |-> m.seq, out |-> mk.out,
                                   alive |-> /\ n \in servers
                                             /\ r.proc = "running"
                                             /\ ~r.inq_none]]]
    /\ STATS' = StatsOkEr(StatsTotals(STATS, 0, 0), sc, 0)
    /\ UNCHANGED <<servers, NSMGR, now, nlines, ul, hq, announced, mg, cf, px, api>>
    /\ UNCHANGED restvars

\* _send_in, stdio loop: a line is taken from the queue and written to the
\* process; the write fails with IOError when the process has ended
SendInWrite(n) ==
    /\ ns[n].stdin_thread = "stdio"
    /\ ~ns[n].inq_none
    /\ ns[n].inq # << >>
    /\ ns' = [ns EXCEPT ![n] =
                IF ns[n].proc = "running"
                THEN [ns[n] EXCEPT !.childin = Append(@, Head(ns[n].inq)),
                                   !.inq = Tail(@)]
                ELSE StdioKilled(ns[n])]
    /\ UNCHANGED <<servers, NSMGR, now, nlines, ul, hq, STATS, announced, mg, cf, px, api>>
    /\ UNCHANGED restvars

\* the record of the kill the liveness check res of r decided at time t
KillRecord(r, res, t) ==
    [dt |-> t - r.lastping,
     newer |-> r.lastpong # NoTime /\ r.lastpong > r.lastping,
     warned |-> res.warned, pinged |-> res.pinged, unacked |-> r.unacked]

\* the record of the evaluation res of responding made on r at time t
CheckRecord(r, res, t) ==
    [done |-> TRUE, ok |-> res.ok,
     first |-> r.lastping = NoTime,
     expired |-> r.lastping # NoTime /\ t - r.lastping >= PingExpiry,
     newer |-> r.lastpong # NoTime /\ r.lastpong > r.lastping,
     outstanding |-> r.unacked > 0,
     linked |-> r.mqtt_none \/ (r.mqtt_connected /\ r.node_connected)]

\* _send_in, stdio loop: the queue stayed empty, the node server is checked
\* and killed when it is not responding
SendInEmpty(n) ==
    /\ ns[n].stdin_thread = "stdio"
    /\ ~ns[n].inq_none
    /\ ns[n].inq = << >>
    /\ now < MaxTime
    /\ LET res == Responding(ns[n], now) IN
       /\ ns' = [ns EXCEPT ![n] =
                   IF res.raised
                   THEN [res.r EXCEPT !.stdin_thread = "ended"]
                   ELSE IF ~res.ok
                   THEN [StdioKilled(res.r) EXCEPT
                            !.killed = KillRecord(ns[n], res, now),
                            !.checked = CheckRecord(ns[n], res, now)]
                   ELSE [res.r EXCEPT
                            !.checked = CheckRecord(ns[n], res, now)]]
       /\ now' = IF res.r.lastping # ns[n].lastping THEN now + 1 ELSE now
    /\ UNCHANGED <<servers, NSMGR, nlines, ul, hq, STATS, announced, mg, cf, px, api>>
    /\ UNCHANGED restvars

\* _send_in with an MQTT subsystem: wait for the node server to connect,
\* then check it every second
SendInMqtt(n) ==
    /\ ns[n].stdin_thread \in {"mqtt_wait", "mqtt_loop"}
    /\ now < MaxTime
    /\ LET r == ns[n]
           res == Responding(r, now) IN
       /\ ns' = [ns EXCEPT ![n] =
                   IF r.mqtt_none
                   THEN [r EXCEPT !.stdin_thread =
                            IF r.stdin_thread = "mqtt_wait" THEN "stdio"
                            ELSE "ended"]
                   ELSE IF r.stdin_thread = "mqtt_wait"
                   THEN [r EXCEPT !.stdin_thread =
                            IF r.node_connected THEN "mqtt_loop" ELSE @]
                   ELSE IF res.raised
                   THEN [res.r EXCEPT !.stdin_thread = "ended"]
                   ELSE IF ~res.ok
                   THEN [res.r EXCEPT !.rqq_none = TRUE, !.rqq = << >>,
                                      !.mqtt_connected = FALSE,
                                      !.mqtt_none = TRUE, !.proc = "dead",
                                      !.killed = KillRecord(r, res, now),
                                      !.checked = CheckRecord(r, res, now)]
                   ELSE [res.r EXCEPT
                            !.checked = CheckRecord(r, res, now)]]
       /\ now' = IF /\ ~r.mqtt_none
                    /\ r.stdin_thread = "mqtt_loop"
                    /\ res.r.lastping # r.lastping
                 THEN now + 1 ELSE now
    /\ UNCHANGED <<servers, NSMGR, nlines, ul, hq, STATS, announced, mg, cf, px, api>>
    /\ UNCHANGED restvars

\* the definition property read by a thread of its own: "self.alive and
\* self.responding".  With no ping sent yet responding sends one first and
\* records its time afterwards; the other branches are evaluated at once.
DefinitionCall(n) ==
    /\ ns[n].ev = "idle"
    /\ now < MaxTime
    /\ \E gone \in Gone(ns[n]) : Alive(ns[n], gone)
    /\ LET r == ns[n]
           res == Responding(r, now) IN
       IF r.lastping = NoTime
       THEN /\ ns' = [ns EXCEPT ![n] =
                        IF SendPing(r).out = "raised" THEN r
                        ELSE [SendPing(r).r EXCEPT !.ev = "stamp"]]
            /\ now' = now
       ELSE /\ ns' = [ns EXCEPT ![n] =
                        IF res.raised THEN res.r
                        ELSE [res.r EXCEPT
                                 !.checked = CheckRecord(r, res, now)]]
            /\ now' = IF res.r.lastping # r.lastping THEN now + 1 ELSE now
    /\ UNCHANGED <<servers, NSMGR, nlines, ul, hq, STATS, announced, mg, cf, px, api>>
    /\ UNCHANGED restvars

\* "self._lastping = time.time(); return True" of the thread that has sent
\* the first ping
DefinitionStamp(n) ==
    /\ ns[n].ev = "stamp"
    /\ now < MaxTime
    /\ ns' = [ns EXCEPT ![n].lastping = now, ![n].ev = "idle"]
    /\ now' = now + 1
    /\ UNCHANGED <<servers, NSMGR, nlines, ul, hq, STATS, announced, mg, cf, px, api>>
    /\ UNCHANGED restvars

\* the pings the stdin thread has written to the node server
Delivered(r) ==
    Cardinality({i \in DOMAIN r.childin : r.childin[i].cmd = "ping"})

\* the node server answers a ping it has read: its pong line is handled
ChildPong(n) ==
    /\ Delivered(ns[n]) > nlines
    /\ RecvOut(n, Msg("pong", NoSeq, TRUE, ""))

\* mqttSubsystem._connect and _disconnect: the broker connection comes and
\* goes
MqttConnection(n, up) ==
    /\ ~ns[n].mqtt_none
    /\ ns[n].mqtt_connected # up
    /\ ns' = [ns EXCEPT ![n].mqtt_connected = up]
    /\ UNCHANGED <<servers, NSMGR, now, nlines, ul, hq, STATS, announced, mg, cf, px, api>>
    /\ UNCHANGED restvars

\* time passes
Tick ==
    /\ now + TickLen <= MaxTime
    /\ now' = now + TickLen
    /\ UNCHANGED <<servers, ns, NSMGR, nlines, ul, hq, STATS, announced, mg, cf, px, api>>
    /\ UNCHANGED restvars

\* time passes while no thread is inside responding, no ping waits to be
\* written and no ping the node server has read is unanswered
TickAnswered(n) ==
    /\ ns[n].ev = "idle"
    /\ \A i \in DOMAIN ns[n].inq : ns[n].inq[i].cmd # "ping"
    /\ Delivered(ns[n]) = nlines
    /\ Tick

(***************************************************************************)
(* NodeServerManager.unload().                                             *)
(***************************************************************************)
IdleUnload == [pc |-> "idle", i |-> 1, timer |-> 0, ns_running |-> FALSE]

\* any([node_server.alive for node_server in self.servers.values()]), with
\* g[n] the outcome of os.kill(pid, 0) for node server n
AnyAlive(g) == \E n \in servers : Alive(ns[n], g[n])

\* the outcomes os.kill(pid, 0) can have for the node servers
GoneChoices == {g \in [Servers -> BOOLEAN] : \A n \in Servers : g[n] \in Gone(ns[n])}

\* unload() is called
UnloadCall ==
    /\ ul.pc = "idle"
    /\ ul' = [ul EXCEPT !.pc = "exit", !.i = 1]
    /\ UNCHANGED <<servers, ns, NSMGR, now, nlines, hq, STATS, announced, mg, cf, px, api>>
    /\ UNCHANGED restvars

\* the first loop: send_exit() to the next node server; an exception of
\* _mk_cmd ends unload()
UnloadSendExit ==
    /\ ul.pc = "exit"
    /\ ul.i \in Servers
    /\ LET mk == MkCmd(ns[ul.i], Msg("exit", NoSeq, TRUE, "")) IN
       IF ul.i \notin servers
       THEN /\ ul' = [ul EXCEPT !.i = @ + 1]
            /\ ns' = ns
       ELSE IF mk.out = "raised"
       THEN /\ ul' = [ul EXCEPT !.pc = "raised"]
            /\ ns' = ns
       ELSE /\ ul' = [ul EXCEPT !.i = @ + 1]
            /\ ns' = [ns EXCEPT ![ul.i] =
                        [mk.r EXCEPT !.node_connected = FALSE,
                                     !.exit_sent = @ \/ ExitSent(mk.out)]]
    /\ UNCHANGED <<servers, NSMGR, now, nlines, hq, STATS, announced, mg, cf, px, api>>
    /\ UNCHANGED restvars

\* ns_running = any(alive); timer = 0
UnloadFirstPoll ==
    /\ ul.pc = "exit"
    /\ ul.i \notin Servers
    /\ \E g \in GoneChoices :
          ul' = [ul EXCEPT !.pc = "poll", !.timer = 0,
                           !.ns_running = AnyAlive(g)]
    /\ UNCHANGED <<servers, ns, NSMGR, now, nlines, hq, STATS, announced, mg, cf, px, api>>
    /\ UNCHANGED restvars

\* the wait loop with every polling round at most n
UnloadWaits(running, timer, n) == running /\ timer < n

\* one round of the wait loop, or its end
UnloadPoll ==
    /\ ul.pc = "poll"
    /\ IF UnloadWaits(ul.ns_running, ul.timer, NS_QUIT_WAIT_TIME)
       THEN \E g \in GoneChoices :
               ul' = [ul EXCEPT !.timer = @ + 1, !.ns_running = AnyAlive(g)]
       ELSE ul' = [ul EXCEPT !.pc = "kill", !.i = 1]
    /\ UNCHANGED <<servers, ns, NSMGR, now, nlines, hq, STATS, announced, mg, cf, px, api>>
    /\ UNCHANGED restvars

\* the last loop: kill() the next node server if it is alive
UnloadKill ==
    /\ ul.pc = "kill"
    /\ ul.i \in Servers
    /\ \E g \in GoneChoices :
          ns' = [ns EXCEPT ![ul.i].proc =
                    IF ul.i \in servers /\ Alive(ns[ul.i], g[ul.i])
                    THEN "dead" ELSE @]
    /\ ul' = [ul EXCEPT !.i = @ + 1]
    /\ UNCHANGED <<servers, NSMGR, now, nlines, hq, STATS, announced, mg, cf, px, api>>
    /\ UNCHANGED restvars

\* unload() returns
UnloadReturn ==
    /\ ul.pc = "kill"
    /\ ul.i \notin Servers
    /\ ul' = [ul EXCEPT !.pc = "done"]
    /\ UNCHANGED <<servers, ns, NSMGR, now, nlines, hq, STATS, announced, mg, cf, px, api>>
    /\ UNCHANGED restvars

(***************************************************************************)
(* The controller callbacks (isy/incoming.py).                             *)
(***************************************************************************)
Callbacks == 1..MaxHttp

NewHandler ==
    [pc |-> "new", base |-> UnknownBase, kind |-> "", argsok |-> TRUE,
     node_server |-> NoServer, reply |-> NoReply, out |-> ""]

\* PGLOT.nodeservers[base], NoServer for KeyError
Lookup(base) == IF base \in servers THEN base ELSE NoServer

\* GenericNodeServerHandler.get: look the base up, reply 200 or 404; the
\* reply is finished when get returns
HttpGet(h, base, kind, argsok) ==
    /\ hq[h].pc = "new"
    /\ \A g \in Callbacks : g < h => hq[g].pc # "new"
    /\ hq' = [hq EXCEPT ![h] =
                [@ EXCEPT !.pc = "replied", !.base = base, !.kind = kind,
                          !.argsok = argsok,
                          !.node_server = Lookup(base),
                          !.reply = IF Lookup(base) = NoServer
                                    THEN HttpNotFound ELSE HttpOK]]
    /\ UNCHANGED <<servers, ns, NSMGR, now, nlines, ul, STATS, announced, mg, cf, px, api>>
    /\ UNCHANGED restvars

\* on_finish that forwards whatever get found
ForwardsAlways(node_server) == TRUE

\* 'if self.node_server:' of on_finish
Forwards(node_server) == node_server # NoServer

\* on_finish of the handlers: after the reply, the message of the callback
\* is handed to the node server found by get; arguments that do not convert
\* raise before anything is sent
HttpOnFinish(h) ==
    /\ hq[h].pc = "replied"
    /\ LET f == hq[h]
           n == IF f.node_server = NoServer THEN 1 ELSE f.node_server
           mk == MkCmd(ns[n], Msg(f.kind, NoSeq, TRUE, "")) IN
       IF Forwards(f.node_server) /\ f.argsok
       THEN /\ ns' = [ns EXCEPT ![n] = mk.r]
            /\ hq' = [hq EXCEPT ![h].pc = "done", ![h].out = mk.out]
       ELSE /\ ns' = ns
            /\ hq' = [hq EXCEPT ![h].pc = "done",
                                ![h].out = IF Forwards(f.node_server)
                                           THEN "error" ELSE ""]
    /\ UNCHANGED <<servers, NSMGR, now, nlines, ul, STATS, announced, mg, cf, px, api>>
    /\ UNCHANGED restvars

(***************************************************************************)
(* NodeServerManager.start_server() and delete().                          *)
(***************************************************************************)
\* the object of a base no node server has been started under
NoProcess(n) ==
    [NewServer(n, "Default", TRUE) EXCEPT
        !.proc = "none", !.inq_none = TRUE, !.inq = << >>,
        !.rqq_none = TRUE, !.stdin_thread = "ended", !.req_thread = "dead"]

\* the record of no call of start_server having been made
NoStart == [called |-> FALSE, dup |-> FALSE, base |-> NoServer,
            key |-> NoServer, raised |-> FALSE]

IdleMgr == [pc |-> "idle", base |-> NoServer, polls |-> 0, starts |-> 0,
            restarts |-> 0, last |-> NoStart,
            \* history: the exception the last call of delete() raised
            del_err |-> "none"]

\* "while base in self.servers or base is None: base = random_string(5)":
\* the keys the loop can end with
StartKeysKept(regs, base) ==
    IF base = NoServer THEN Servers \ regs ELSE {base}

StartKeys(regs, base) ==
    IF base \in regs \/ base = NoServer THEN Servers \ regs ELSE {base}

\* start_server(platform, profile_number, base): fails tells that
\* server.json or NodeServer() raised, which leaves as ValueError
StartServer(base, p, interface, raced, fails) ==
    /\ mg.pc = "idle"
    /\ mg.starts < MaxStarts
    /\ \E key \in StartKeys(servers, base) :
          IF fails
          THEN /\ mg' = [mg EXCEPT !.starts = @ + 1, !.last =
                           [called |-> TRUE, dup |-> base \in servers,
                            base |-> base, key |-> NoServer,
                            raised |-> TRUE]]
               /\ UNCHANGED <<servers, ns>>
          ELSE /\ ns' = [ns EXCEPT ![key] = NewServer(p, interface, raced)]
               /\ servers' = servers \cup {key}
               /\ mg' = [mg EXCEPT !.starts = @ + 1, !.last =
                           [called |-> TRUE, dup |-> base \in servers,
                            base |-> base, key |-> key,
                            raised |-> FALSE]]
    /\ UNCHANGED <<NSMGR, now, nlines, ul, hq, STATS, announced, cf, px, api>>
    /\ UNCHANGED restvars

\* the polls of "for _ in range(10)"
DeletePolls == 10

\* delete(base_url): self.servers[base_url] raises KeyError for a base that
\* is not registered; send_exit() may raise in _mk_cmd
DeleteCall(b) ==
    /\ mg.pc = "idle"
    /\ b \in servers
    /\ LET mk == MkCmd(ns[b], Msg("exit", NoSeq, TRUE, "")) IN
       IF mk.out = "raised"
       THEN /\ ns' = ns
            /\ mg' = [mg EXCEPT !.del_err = "AttributeError"]
       ELSE /\ ns' = [ns EXCEPT ![b] =
                        [mk.r EXCEPT !.node_connected = FALSE,
                                     !.exit_sent = @ \/ ExitSent(mk.out)]]
            /\ mg' = [mg EXCEPT !.pc = "del_poll", !.base = b, !.polls = 0,
                                !.del_err = "none"]
    /\ UNCHANGED <<servers, NSMGR, now, nlines, ul, hq, STATS, announced, cf, px, api>>
    /\ UNCHANGED restvars

\* delete(base_url) for a base that is not registered:
\* "node_server = self.servers[base_url]" raises KeyError
DeleteUnknown(b) ==
    /\ mg.pc = "idle"
    /\ b \notin servers
    /\ mg' = [mg EXCEPT !.del_err = "KeyError"]
    /\ UNCHANGED <<servers, ns, NSMGR, now, nlines, ul, hq, STATS, announced, cf, px, api>>
    /\ UNCHANGED restvars

\* one round of the loop: the node server has ended, or is waited for, or
\* after the last round is killed
DeletePoll ==
    /\ mg.pc = "del_poll"
    /\ IF mg.polls < DeletePolls
       THEN \E gone \in Gone(ns[mg.base]) :
               /\ mg' = IF Alive(ns[mg.base], gone)
                        THEN [mg EXCEPT !.polls = @ + 1]
                        ELSE [mg EXCEPT !.pc = "del_rm"]
               /\ ns' = ns
       ELSE /\ ns' = [ns EXCEPT ![mg.base].proc =
                         IF @ = "running" THEN "dead" ELSE @]
            /\ mg' = [mg EXCEPT !.pc = "del_rm"]
    /\ UNCHANGED <<servers, NSMGR, now, nlines, ul, hq, STATS, announced, cf, px, api>>
    /\ UNCHANGED restvars

\* the registry without every key
DelServerAll(regs, b) == {}

\* del self.servers[base_url]
DelServer(regs, b) == regs \ {b}

DeleteRemove ==
    /\ mg.pc = "del_rm"
    /\ servers' = DelServer(servers, mg.base)
    /\ mg' = [mg EXCEPT !.pc = "idle", !.base = NoServer, !.polls = 0]
    /\ UNCHANGED <<ns, NSMGR, now, nlines, ul, hq, STATS, announced, cf, px, api>>
    /\ UNCHANGED restvars

(***************************************************************************)
(* NodeServer.restart(), and the request thread it leaves behind.          *)
(***************************************************************************)
\* restart() of node server n is called: send_exit(), which may raise in
\* _mk_cmd, and self._mqtt.stop().  One thread left behind is followed: no
\* restart while it and its successor are both in a call
RestartCall(n) ==
    /\ mg.pc = "idle"
    /\ n \in servers
    /\ mg.restarts < MaxRestarts
    /\ ~(ns[n].req_thread = "call" /\ ns[n].old_thread = "call")
    /\ LET mk == MkCmd(ns[n], Msg("exit", NoSeq, TRUE, "")) IN
       IF mk.out = "raised"
       THEN /\ ns' = ns
            /\ mg' = [mg EXCEPT !.restarts = @ + 1]
       ELSE /\ ns' = [ns EXCEPT ![n] =
                        [mk.r EXCEPT !.node_connected = FALSE,
                                     !.exit_sent = @ \/ ExitSent(mk.out),
                                     !.mqtt_connected = FALSE]]
            /\ mg' = [mg EXCEPT !.pc = "rs_poll", !.base = n, !.polls = 0,
                                !.restarts = @ + 1]
    /\ UNCHANGED <<servers, NSMGR, now, nlines, ul, hq, STATS, announced, cf, px, api>>
    /\ UNCHANGED restvars

\* one round of "for _ in range(10)": the node server has ended, or is
\* waited for, or after the last round is killed
RestartPoll ==
    /\ mg.pc = "rs_poll"
    /\ IF mg.polls < DeletePolls
       THEN \E gone \in Gone(ns[mg.base]) :
               /\ mg' = IF Alive(ns[mg.base], gone)
                        THEN [mg EXCEPT !.polls = @ + 1]
                        ELSE [mg EXCEPT !.pc = "rs_start"]
               /\ ns' = ns
       ELSE /\ ns' = [ns EXCEPT ![mg.base].proc =
                         IF @ = "running" THEN "dead" ELSE @]
            /\ mg' = [mg EXCEPT !.pc = "rs_start"]
    /\ UNCHANGED <<servers, NSMGR, now, nlines, ul, hq, STATS, announced, cf, px, api>>
    /\ UNCHANGED restvars

\* start(), up to the start of the threads: a new process, new queues and
\* new threads; the MQTT subsystem, the configuration and node_connected
\* stay, and so do a request thread that is in a call and a stdin thread
\* that has not left its loop
Respawned(r, raced) ==
    LET fresh == NewServer(r.profile_number, r.interface,
                           raced \/ ~r.mqtt_none)
        r0 == [fresh EXCEPT
                 !.inq = << >>,
                 !.node_connected = r.node_connected,
                 !.config = r.config,
                 !.old_thread = IF r.req_thread = "call" THEN "call"
                                ELSE IF r.old_thread = "call" THEN "call"
                                ELSE "none",
                 !.old_cur = IF r.req_thread = "call" THEN r.cur
                             ELSE IF r.old_thread = "call" THEN r.old_cur
                             ELSE NoMsg,
                 !.old_stdin = IF r.stdin_thread = "stdio"
                                  \/ r.old_stdin = "stdio"
                               THEN "stdio" ELSE "none",
                 !.stdin_thread = IF r.interface = "mqtt"
                                     /\ (~r.mqtt_none \/ ~raced)
                                  THEN "mqtt_wait" ELSE "stdio",
                 !.saves = r.saves, !.latesaves = r.latesaves,
                 !.lastret = r.lastret, !.killed = r.killed,
                 !.reset = r.reset, !.line = r.line, !.nbad = r.nbad,
                 !.afterbad = r.afterbad, !.outoforder = r.outoforder]
    IN r0

\* "self.send_params(); self.send_config()" of start()
ParamsSent(r0) ==
    LET mk1 == MkCmd(r0, Msg("params", NoSeq, TRUE, ""))
        mk2 == MkCmd(mk1.r, Msg("config", NoSeq, TRUE, ""))
    IN IF mk1.out = "raised" THEN r0 ELSE mk2.r

\* the NodeServer object r when start() has run again
Restarted(r, raced) == ParamsSent(Respawned(r, raced))

\* self.start() at the end of restart()
RestartStart(raced) ==
    /\ mg.pc = "rs_start"
    /\ ns' = [ns EXCEPT ![mg.base] =
                [Restarted(@, raced) EXCEPT
                    !.mgr_at_start = (NSMGR = mg.base)]]
    /\ mg' = [mg EXCEPT !.pc = "idle", !.base = NoServer, !.polls = 0]
    /\ UNCHANGED <<servers, NSMGR, now, nlines, ul, hq, STATS, announced, cf, px, api>>
    /\ UNCHANGED restvars

\* start() at the end of restart(), first part: the process is spawned and
\* the threads are started; "time.sleep(1)" follows for a server without
\* MQTT subsystem
StartSpawn(raced) ==
    /\ mg.pc = "rs_start"
    /\ ns' = [ns EXCEPT ![mg.base] =
                [Respawned(@, raced) EXCEPT
                    !.mgr_at_start = (NSMGR = mg.base)]]
    /\ mg' = [mg EXCEPT !.pc = "rs_send"]
    /\ UNCHANGED <<servers, NSMGR, now, nlines, ul, hq, STATS, announced, cf, px, api>>
    /\ UNCHANGED restvars

\* start() at the end of restart(), second part: params and config are
\* handed to the transport
StartSend ==
    /\ mg.pc = "rs_send"
    /\ ns' = [ns EXCEPT ![mg.base] = ParamsSent(@)]
    /\ mg' = [mg EXCEPT !.pc = "idle", !.base = NoServer, !.polls = 0]
    /\ UNCHANGED <<servers, NSMGR, now, nlines, ul, hq, STATS, announced, cf, px, api>>
    /\ UNCHANGED restvars

\* the request thread of the run before restart(): its REST call returns
\* with status sc; the result goes to the transport of the new run and
\* task_done() to the new queue
OldReturn(n, sc) ==
    /\ ns[n].old_thread = "call"
    /\ SLOCK = NoThread
    /\ LET r == ns[n]
           m == r.old_cur
           mk == IF SeqTruthy(m.seq)
                 THEN MkCmd(r, Msg("result", m.seq, TRUE, ""))
                 ELSE [r |-> r, out |-> "none"]
       IN ns' = [ns EXCEPT ![n] =
                   [mk.r EXCEPT
                      !.old_cur = NoMsg,
                      !.old_thread = IF mk.out = "raised" THEN "dead"
                                     ELSE AfterTaskDone(r),
                      !.unfinished = IF mk.out # "raised" /\ @ > 0
                                     THEN @ - 1 ELSE @,
                      !.outoforder = @ \/ (r.req_thread = "call"
                                            /\ r.older = "req"),
                      !.older = "none"]]
    /\ STATS' = StatsOkEr(StatsTotals(STATS, 0, 0), sc, 0)
    /\ UNCHANGED <<servers, NSMGR, now, nlines, ul, hq, announced, mg, cf, px, api>>
    /\ UNCHANGED restvars

\* the request thread of the run before restart() takes the next message
\* of the new queue
OldGet(n) ==
    /\ ns[n].old_thread = "wait"
    /\ ~ns[n].rqq_none
    /\ ns[n].rqq # << >>
    /\ LET m == Head(ns[n].rqq) IN
       ns' = [ns EXCEPT ![n].rqq = Tail(@),
                        ![n].old_cur = IF m.ok THEN m ELSE NoMsg,
                        ![n].old_thread = IF m.ok THEN "call" ELSE "dead",
                        ![n].older = IF m.ok /\ ns[n].req_thread = "call"
                                     THEN "req" ELSE @]
    /\ UNCHANGED <<servers, NSMGR, now, nlines, ul, hq, STATS, announced, mg, cf, px, api>>
    /\ UNCHANGED restvars

\* "while True and self._inq": the stdin thread finds the queue gone and
\* leaves its loop
StdinEnds(n) ==
    /\ ns[n].stdin_thread = "stdio"
    /\ ns[n].inq_none
    /\ ns' = [ns EXCEPT ![n].stdin_thread = "ended"]
    /\ UNCHANGED <<servers, NSMGR, now, nlines, ul, hq, STATS, announced, mg, cf, px, api>>
    /\ UNCHANGED restvars

\* the stdin thread of the run before restart() takes a line of the new
\* queue and writes it to the new process; the write fails with IOError
\* when the process has ended
OldSendInWrite(n) ==
    /\ ns[n].old_stdin = "stdio"
    /\ ~ns[n].inq_none
    /\ ns[n].inq # << >>
    /\ ns' = [ns EXCEPT ![n] =
                IF ns[n].proc = "running"
                THEN [ns[n] EXCEPT !.childin = Append(@, Head(ns[n].inq)),
                                   !.inq = Tail(@)]
                ELSE [ns[n] EXCEPT !.inq_none = TRUE, !.inq = << >>,
                                   !.rqq_none = TRUE, !.rqq = << >>,
                                   !.unfinished = 0, !.old_stdin = "ended"]]
    /\ UNCHANGED <<servers, NSMGR, now, nlines, ul, hq, STATS, announced, mg, cf, px, api>>
    /\ UNCHANGED restvars

\* the stdin thread of the run before restart() finds the queue gone
OldStdinEnds(n) ==
    /\ ns[n].old_stdin = "stdio"
    /\ ns[n].inq_none
    /\ ns' = [ns EXCEPT ![n].old_stdin = "ended"]
    /\ UNCHANGED <<servers, NSMGR, now, nlines, ul, hq, STATS, announced, mg, cf, px, api>>
    /\ UNCHANGED restvars

(***************************************************************************)
(* ConfigManager (config_manager.py).                                      *)
(***************************************************************************)
\* the threads that call write()
Writers == {1, 2}

\* the bytes passwords are made of, and the passwords: byte strings
PwBytes == {97, 255}
Passwords == UNION {[1..n -> PwBytes] : n \in 0..MaxPwLen}

\* the character of the base64 alphabet that stands for the six bits s
B64Char(s) ==
    IF s < 26 THEN 65 + s
    ELSE IF s < 52 THEN 97 + (s - 26)
    ELSE IF s < 62 THEN 48 + (s - 52)
    ELSE IF s = 62 THEN 43 ELSE 47

\* the six bits character c stands for, -1 for a character outside the
\* alphabet
B64Val(c) ==
    IF c >= 65 /\ c <= 90 THEN c - 65
    ELSE IF c >= 97 /\ c <= 122 THEN c - 71
    ELSE IF c >= 48 /\ c <= 57 THEN c + 4
    ELSE IF c = 43 THEN 62
    ELSE IF c = 47 THEN 63 ELSE -1

\* a conversion that leaves the text as it is
B64EncodeClear(bs) == bs

\* base64.b64encode: three bytes become four characters, a last group of
\* one or two bytes is padded
RECURSIVE B64Encode(_)
B64Encode(bs) ==
    IF Len(bs) = 0 THEN << >>
    ELSE IF Len(bs) = 1
    THEN LET n == bs[1] * 65536 IN
         << B64Char(n \div 262144), B64Char((n \div 4096) % 64),
            B64Pad, B64Pad >>
    ELSE IF Len(bs) = 2
    THEN LET n == bs[1] * 65536 + bs[2] * 256 IN
         << B64Char(n \div 262144), B64Char((n \div 4096) % 64),
            B64Char((n \div 64) % 64), B64Pad >>
    ELSE LET n == bs[1] * 65536 + bs[2] * 256 + bs[3] IN
         << B64Char(n \div 262144), B64Char((n \div 4096) % 64),
            B64Char((n \div 64) % 64), B64Char(n % 64) >>
         \o B64Encode(SubSeq(bs, 4, Len(bs)))

\* base64.b64decode accepts text of whole groups of four characters of the
\* alphabet, the last one padded or not; anything else is "Incorrect
\* padding", a TypeError
RECURSIVE B64Valid(_)
B64Valid(cs) ==
    IF Len(cs) = 0 THEN TRUE
    ELSE IF Len(cs) < 4 THEN FALSE
    ELSE /\ B64Val(cs[1]) >= 0 /\ B64Val(cs[2]) >= 0
         /\ IF cs[4] = B64Pad
            THEN Len(cs) = 4 /\ (cs[3] = B64Pad \/ B64Val(cs[3]) >= 0)
            ELSE /\ B64Val(cs[3]) >= 0 /\ B64Val(cs[4]) >= 0
                 /\ B64Valid(SubSeq(cs, 5, Len(cs)))

RECURSIVE B64Decode(_)
B64Decode(cs) ==
    IF Len(cs) = 0 THEN << >>
    ELSE LET v3 == IF cs[3] = B64Pad THEN 0 ELSE B64Val(cs[3])
             v4 == IF cs[4] = B64Pad THEN 0 ELSE B64Val(cs[4])
             n == B64Val(cs[1]) * 262144 + B64Val(cs[2]) * 4096
                  + v3 * 64 + v4
         IN IF cs[3] = B64Pad THEN << n \div 65536 >>
            ELSE IF cs[4] = B64Pad
            THEN << n \div 65536, (n \div 256) % 256 >>
            ELSE << n \div 65536, (n \div 256) % 256, n % 256 >>
                 \o B64Decode(SubSeq(cs, 5, Len(cs)))

\* encode(): a deep copy of the tree with both passwords encoded
Encode(tree) == [http |-> B64Encode(tree.http), isy |-> B64Encode(tree.isy)]

\* decode(encoded): the passwords are decoded one after the other; the
\* TypeError of the first that is not base64 ends the decoding and is
\* passed over
Decode(tree) ==
    IF ~B64Valid(tree.http) THEN tree
    ELSE IF ~B64Valid(tree.isy)
    THEN [tree EXCEPT !.http = B64Decode(tree.http)]
    ELSE [http |-> B64Decode(tree.http), isy |-> B64Decode(tree.isy)]

NoTree == [http |-> << >>, isy |-> << >>]

\* the ConfigManager holding the passwords http and isy, nothing written
\* yet.  file.of is history: the tree that was in memory when the file was
\* dumped
NewConfig(http, isy) ==
    [writing |-> FALSE,
     mem     |-> [http |-> http, isy |-> isy],
     file    |-> [tree |-> NoTree, written |-> FALSE, of |-> NoTree],
     nupd    |-> 0,
     w       |-> [t \in Writers |-> [pc |-> "idle", tries |-> 0]]]

\* what the steps of the ConfigManager leave alone
cfrest == <<servers, ns, NSMGR, now, nlines, ul, hq, STATS, announced, mg, px, api>>

\* write() is called by thread t
WriteCall(t) ==
    /\ cf.w[t].pc = "idle"
    /\ cf' = [cf EXCEPT !.w[t] = [pc |-> "test", tries |-> 0]]
    /\ UNCHANGED cfrest
    /\ UNCHANGED restvars

\* "if not self._writing": the flag is read; when it is set the thread
\* sleeps and tries again, and gives up after the last try
WriteTest(t) ==
    /\ cf.w[t].pc = "test"
    /\ cf' = IF ~cf.writing
             THEN [cf EXCEPT !.w[t].pc = "set"]
             ELSE IF cf.w[t].tries + 1 < WriteTries
             THEN [cf EXCEPT !.w[t].tries = @ + 1]
             ELSE [cf EXCEPT !.w[t] = [pc |-> "idle", tries |-> 0]]
    /\ UNCHANGED cfrest
    /\ UNCHANGED restvars

\* "self._writing = True; break"
WriteSet(t) ==
    /\ cf.w[t].pc = "set"
    /\ cf' = [cf EXCEPT !.writing = TRUE, !.w[t].pc = "dump"]
    /\ UNCHANGED cfrest
    /\ UNCHANGED restvars

\* "encoded = self.encode(); json.dump(encoded, open(self._file, 'w'))"
WriteDump(t) ==
    /\ cf.w[t].pc = "dump"
    /\ cf' = [cf EXCEPT !.file = [tree |-> Encode(cf.mem), written |-> TRUE,
                                  of |-> cf.mem],
                        !.w[t].pc = "release"]
    /\ UNCHANGED cfrest
    /\ UNCHANGED restvars

\* encode() or json.dump() raises (a password that is no string, a missing
\* element, a file that cannot be opened or written): the exception leaves
\* write() at once.  An error of encode() or open() leaves the file as it
\* was, an error of the dump leaves a file that cannot be read.
WriteFail(t, stage) ==
    /\ cf.w[t].pc = "dump"
    /\ cf' = [cf EXCEPT !.file = IF stage = "dump"
                                 THEN [tree |-> NoTree, written |-> FALSE,
                                       of |-> NoTree]
                                 ELSE @,
                        !.w[t] = [pc |-> "idle", tries |-> 0]]
    /\ UNCHANGED cfrest
    /\ UNCHANGED restvars

\* "self._writing = False"
WriteRelease(t) ==
    /\ cf.w[t].pc = "release"
    /\ cf' = [cf EXCEPT !.writing = FALSE,
                        !.w[t] = [pc |-> "idle", tries |-> 0]]
    /\ UNCHANGED cfrest
    /\ UNCHANGED restvars

\* update(): thread t sets the password of the http element and writes
ConfigUpdate(t, http) ==
    /\ cf.w[t].pc = "idle"
    /\ cf.nupd < MaxUpdates
    /\ cf' = [cf EXCEPT !.mem.http = http, !.nupd = @ + 1,
                        !.w[t] = [pc |-> "test", tries |-> 0]]
    /\ UNCHANGED cfrest
    /\ UNCHANGED restvars

\* read(): the file is loaded, decoded and taken over by update()
ConfigRead(t) ==
    /\ cf.w[t].pc = "idle"
    /\ cf.file.written
    /\ cf' = [cf EXCEPT !.mem = Decode(cf.file.tree),
                        !.w[t] = [pc |-> "test", tries |-> 0]]
    /\ UNCHANGED cfrest
    /\ UNCHANGED restvars

(***************************************************************************)
(* Node addresses: add_node_prefix (isy/__init__.py) and rem_node_prefix   *)
(* (isy/incoming.py).  A string is a sequence of characters.               *)
(***************************************************************************)
\* the profile numbers and the node addresses of a run
Profiles == {0, 7, 42, 100, 999}
AddrChars == {"n", "0", "_", "a"}
Addresses == UNION {[1..k -> AddrChars] : k \in 0..MaxAddrLen}

\* the decimal digit d as a character
DigitChar(d) == <<"0", "1", "2", "3", "4", "5", "6", "7", "8", "9">>[d + 1]

\* str(ns_profnum)
RECURSIVE Str(_)
Str(p) == IF p < 10 THEN << DigitChar(p) >>
          ELSE Append(Str(p \div 10), DigitChar(p % 10))

\* s.zfill(width): zeros are put in front of a string shorter than width
RECURSIVE Zfill(_, _)
Zfill(s, width) == IF Len(s) >= width THEN s ELSE Zfill(<<"0">> \o s, width)

\* a prefix whose number is not filled up with zeros
NodePrefixBare(p) == <<"n">> \o Str(p) \o <<"_">>

\* prefix = 'n{}_'.format(str(ns_profnum).zfill(3))
NodePrefix(p) == <<"n">> \o Zfill(Str(p), PrefixDigits) \o <<"_">>

\* add_node_prefix(ns_profnum, nid)
add_node_prefix(p, nid) == NodePrefix(p) \o nid

\* rem_node_prefix(node_address)
rem_node_prefix(a) ==
    IF Len(a) >= PrefixLen THEN SubSeq(a, PrefixLen + 1, Len(a)) ELSE a

\* the address a of a node of profile p, not yet sent to the controller
NewAddress(p, a) ==
    [pc |-> "new", p |-> p, a |-> a, sent |-> << >>, back |-> << >>]

\* what the steps of a node address leave alone
pxrest == <<servers, ns, NSMGR, now, nlines, ul, hq, STATS, announced, mg, cf,
           api>>

\* the address is sent to the controller with the prefix of its profile
AddressOut ==
    /\ px.pc = "new"
    /\ px' = [px EXCEPT !.pc = "sent", !.sent = add_node_prefix(px.p, px.a)]
    /\ UNCHANGED pxrest
    /\ UNCHANGED restvars

\* a callback of the controller names the node: the handler takes the
\* prefix off
AddressBack ==
    /\ px.pc = "sent"
    /\ px' = [px EXCEPT !.pc = "back", !.back = rem_node_prefix(px.sent)]
    /\ UNCHANGED pxrest
    /\ UNCHANGED restvars

\* the node server manager at rest, as the REST client's runs have it
(***************************************************************************)
(* The node server library: register_result_cb and on_result of a          *)
(* NodeServer (nodeserver_api.py).  Worker 1 is the thread that reads the  *)
(* node server's stdin and calls on_result; both workers register          *)
(* callbacks.                                                              *)
(***************************************************************************)
IdleCall == [pc |-> "idle", s |-> 0, seq |-> 0, before |-> 0]

\* __init__: "_seq = 1000", a free lock, no callback
NewApi ==
    [seq |-> SeqStart, lock |-> NoThread, cb |-> {},
     th |-> [t \in Workers |-> IdleCall],
     \* history: the numbers read from the counter, the numbers returned
     \* (with whether their callback was registered then, and how many
     \* numbers had been returned when the call began), the seq of the
     \* callbacks invoked, the results reported as errors and the results
     \* handled
     handed |-> << >>, issued |-> << >>, invoked |-> << >>,
     errors |-> 0, nres |-> 0]

\* a lock that is never waited for
LockIgnored(t) == TRUE

\* "self._seq_lock.acquire()" returns for thread t
LockFree(t) == api.lock = NoThread

\* register_result_cb is called by thread t and takes the lock
RegAcquire(t) ==
    /\ api.th[t].pc = "idle"
    /\ api.seq < SeqStart + MaxRegs
    /\ LockFree(t)
    /\ api' = [api EXCEPT !.lock = t, !.th[t].pc = "bump",
                          !.th[t].before = Len(api.issued)]
    /\ UNCHANGED pxrest0

\* "self._seq += 1"
RegBump(t) ==
    /\ api.th[t].pc = "bump"
    /\ api' = [api EXCEPT !.seq = @ + 1, !.th[t].pc = "read"]
    /\ UNCHANGED pxrest0

\* "s = self._seq"
RegRead(t) ==
    /\ api.th[t].pc = "read"
    /\ api' = [api EXCEPT !.th[t].s = api.seq, !.th[t].pc = "release",
                          !.handed = Append(@, api.seq)]
    /\ UNCHANGED pxrest0

\* "finally: self._seq_lock.release()"
RegRelease(t) ==
    /\ api.th[t].pc = "release"
    /\ api' = [api EXCEPT !.lock = NoThread, !.th[t].pc = "store"]
    /\ UNCHANGED pxrest0

\* "self._seq_cb[s] = [func, kwargs]"
RegStore(t) ==
    /\ api.th[t].pc = "store"
    /\ api' = [api EXCEPT !.cb = @ \cup {api.th[t].s}, !.th[t].pc = "return"]
    /\ UNCHANGED pxrest0

\* "return s"
RegReturn(t) ==
    /\ api.th[t].pc = "return"
    /\ api' = [api EXCEPT
                 !.issued = Append(@, [s |-> api.th[t].s,
                                       registered |-> api.th[t].s \in api.cb,
                                       before |-> api.th[t].before]),
                 !.th[t].pc = "idle"]
    /\ UNCHANGED pxrest0

\* the seq of the results the node server may be sent: of a request made
\* with a number register_result_cb returned (a result may come twice), or
\* a seq no callback was registered for
ResultSeqs == {api.issued[i].s : i \in DOMAIN api.issued} \cup {SeqStart}

\* "if seq not in self._seq_cb: self.smsg(...); return False"
OnResultTest(seq) ==
    /\ api.th[1].pc = "idle"
    /\ api.nres < MaxResults
    /\ api' = [api EXCEPT
                 !.nres = @ + 1,
                 !.th[1].seq = seq,
                 !.th[1].pc = IF seq \in api.cb THEN "pop" ELSE "idle",
                 !.errors = IF seq \in api.cb THEN @ ELSE @ + 1]
    /\ UNCHANGED pxrest0

\* a pop that leaves the entry in the table
Kept(cb, seq) == cb

\* "self._seq_cb.pop(seq)"
Popped(cb, seq) == cb \ {seq}

\* "func, args = self._seq_cb.pop(seq); return func(seq=seq, ...)"
OnResultPop ==
    /\ api.th[1].pc = "pop"
    /\ api' = [api EXCEPT
                 !.cb = Popped(@, api.th[1].seq),
                 !.invoked = Append(@, api.th[1].seq),
                 !.th[1].pc = "idle"]
    /\ UNCHANGED pxrest0

InitNode ==
    /\ servers = Servers
    /\ NSMGR = NoMgr
    /\ now = 0
    /\ nlines = 0
    /\ ul = IdleUnload
    /\ hq = [h \in Callbacks |-> NewHandler]
    /\ announced = << >>
    /\ mg = IdleMgr
    /\ cf = NewConfig(<< >>, << >>)
    /\ px = NewAddress(1, << >>)
    /\ api = NewApi

InitNodeIdle ==
    /\ InitNode
    /\ ns = [n \in Servers |-> NewServer(n, "Default", TRUE)]

\* one step of worker t in request() or get_stats()
RestStep(t, TN, NR, SQ) ==
    /\ \/ \E tn \in TN, nr \in NR, sq \in SQ : ReqStart(t, tn, nr, sq)
       \/ ReqLoopTop(t)
       \/ ReqInstallSession(t)
       \/ \E o \in Outcomes, el \in 1..MaxElapsed : ReqAttempt(t, o, el)
       \/ ReqStatsBegin(t)
       \/ ReqReturn(t)
       \/ ReqDone(t)
       \/ \E c \in BOOLEAN : GetStatsAcquire(t, c)
       \/ GetStatsClear(t)
       \/ GetStatsRelease(t)
       \/ GetStatsUse(t)
    /\ UNCHANGED nsvars

InitRest ==
    /\ no_sessions \in BOOLEAN
    /\ SESSION = NoSession
    /\ SLOCK = NoThread
    /\ STATS = ZeroStats
    /\ ncalls = 0
    /\ rq = [t \in Workers |-> IdleFrame]

(***************************************************************************)
(* SpecRetry: one caller of request(), every retry limit and every         *)
(* argument.                                                               *)
(***************************************************************************)
InitRetry ==
    /\ PG_RETRIES \in (-1)..MaxPgRetries
    /\ InitRest
    /\ InitNodeIdle

NextRetry == RestStep(1, BOOLEAN, BOOLEAN, 0..1)

SpecRetry == InitRetry /\ [][NextRetry]_vars

(***************************************************************************)
(* Spec: the REST client under concurrent callers (one request handler     *)
(* thread per node server), with a retry limit of 0 or 1.                  *)
(***************************************************************************)
Init ==
    /\ PG_RETRIES \in 0..1
    /\ InitRest
    /\ InitNodeIdle

Next == \E t \in Workers : RestStep(t, {FALSE}, {FALSE}, {0})

Spec == Init /\ [][Next]_vars

(***************************************************************************)
(* The runs of the node server manager.  The REST client is at rest; the   *)
(* REST call of a request handler is a single step.                        *)
(***************************************************************************)
InitServers ==
    /\ PG_RETRIES = -1
    /\ no_sessions = FALSE
    /\ SESSION = NoSession
    /\ SLOCK = NoThread
    /\ STATS = ZeroStats
    /\ ncalls = 0
    /\ rq = [t \in Workers |-> IdleFrame]
    /\ InitNode
    /\ \E i \in {"Default", "mqtt"}, raced \in BOOLEAN :
          ns = [n \in Servers |->
                   IF n = 1 THEN NewServer(n, i, raced)
                   ELSE NewServer(n, "Default", TRUE)]

\* a line with command c and nothing else
Line(c) == Msg(c, NoSeq, TRUE, "")

(***************************************************************************)
(* SpecRouter: the lines of the node servers are dispatched, their REST    *)
(* calls made and answered.                                                *)
(***************************************************************************)
RouterLines ==
    {Line("exit"), Line("connected"), Line("install"), Line("unknown"),
     Line("statistics")}
    \cup {Msg(c, sq, ok, "") : c \in {"status", "restcall"},
                               sq \in {NoSeq, 0, 1}, ok \in BOOLEAN}

NextRouter ==
    \/ \E m \in RouterLines : RecvOut(1, m)
    \/ PutDone(1)
    \/ PutTimeout(1)
    \/ RecvBad(1)
    \/ ProcExit(1)
    \/ ReqHandlerGet(1)
    \/ \E sc \in {HttpOK, HttpNotFound} : ReqHandlerReturn(1, sc)
    \/ SendInWrite(1)

SpecRouter == InitServers /\ [][NextRouter]_vars

(***************************************************************************)
(* SpecManager: the node servers send manager operations and ask for the   *)
(* statistics.                                                             *)
(***************************************************************************)
ManagerLines ==
    {Msg("manager", NoSeq, TRUE, op) :
        op \in {"IAmManager", "ClearStatistics", "IsyHasRestarted"}}
    \cup {Msg("statistics", NoSeq, TRUE, a) : a \in {"", "clear"}}
    \cup {Msg("status", 1, TRUE, "")}

NextManager ==
    \E n \in Servers :
       \/ \E m \in ManagerLines : RecvOut(n, m)
       \/ ReqHandlerGet(n)
       \/ ReqHandlerReturn(n, HttpOK)
       \/ SendInWrite(n)

SpecManager == InitServers /\ [][NextManager]_vars

(***************************************************************************)
(* SpecLive: the liveness check of a node server over time.                *)
(***************************************************************************)
LiveLines == {Line("pong"), Line("connected"), Line("disconnected")}

NextLive ==
    \/ \E n \in Servers :
          \/ \E m \in LiveLines : RecvOut(n, m)
          \/ SendInWrite(n)
          \/ SendInEmpty(n)
          \/ SendInMqtt(n)
          \/ \E up \in BOOLEAN : MqttConnection(n, up)
    \/ Tick

SpecLive == InitServers /\ [][NextLive]_vars

(***************************************************************************)
(* SpecPing: a stdio node server that answers every ping at once, its      *)
(* stdin thread, and a thread that reads the definition property.          *)
(***************************************************************************)
InitPing ==
    /\ PG_RETRIES = -1
    /\ InitRest
    /\ InitNodeIdle

NextPing ==
    \/ ChildPong(1)
    \/ SendInWrite(1)
    \/ SendInEmpty(1)
    \/ DefinitionCall(1)
    \/ DefinitionStamp(1)
    \/ TickAnswered(1)

SpecPing == InitPing /\ [][NextPing]_vars

(***************************************************************************)
(* SpecUnload: unload() while the node servers run, answer and end.        *)
(***************************************************************************)
UnloadLines == {Line("exit"), Line("connected")}

NextUnload ==
    \/ \E n \in Servers :
          \/ \E m \in UnloadLines : RecvOut(n, m)
          \/ ProcExit(n)
          \/ SendInWrite(n)
    \/ UnloadCall
    \/ UnloadSendExit
    \/ UnloadFirstPoll
    \/ UnloadPoll
    \/ UnloadKill
    \/ UnloadReturn

SpecUnload == InitServers /\ [][NextUnload]_vars

(***************************************************************************)
(* SpecHttp: the controller's callbacks arrive while the node servers run. *)
(***************************************************************************)
HttpLines == {Line("exit"), Line("connected")}

NextHttp ==
    \/ \E m \in HttpLines : RecvOut(1, m)
    \/ SendInWrite(1)
    \/ \E h \in Callbacks, b \in Servers \cup {UnknownBase},
          k \in {"query", "cmd"}, a \in BOOLEAN : HttpGet(h, b, k, a)
    \/ \E h \in Callbacks : HttpOnFinish(h)

SpecHttp == InitServers /\ [][NextHttp]_vars

(***************************************************************************)
(* Properties of the REST client.                                          *)
(***************************************************************************)
\* a call whose loop has ended: retries holds the value that is returned
Finished(t) == rq[t].pc \in {"stats", "stats_mid", "done"}

\* worker t is inside request()
InCall(t) == rq[t].pc \in {"top", "install", "get", "stats", "stats_mid", "done"}

\* a call between the top of an iteration and its GET
Attempting(t) == rq[t].pc \in {"install", "get"}

C3_StatsBalanced ==
    SLOCK = NoThread => STATS.oktotal + STATS.ertotal = STATS.ntotal

\* both calls have returned, one with 200 and one without, the mutex is free,
\* and a get_stats(clear=True) in between has left only the failure counted
C3_Witness ==
    /\ SLOCK = NoThread
    /\ ncalls = MaxCalls
    /\ \A t \in Workers : rq[t].pc \in {"idle", "done"}
    /\ \E t \in Workers : rq[t].pc = "done" /\ rq[t].result.status_code # 200
    /\ STATS.ntotal = 1
    /\ STATS.ertotal = 1

\* the delay that precedes the attempt after the k-th failure, milliseconds
C7_Ladder(k) ==
    CASE k = 1 -> 250
      [] k = 2 -> 1000
      [] k = 3 -> 2000
      [] OTHER -> 3000

C8_Code(o) ==
    CASE o.exc = "Timeout" -> 1
      [] o.exc = "HTTPError" -> 2
      [] o.exc = "URLRequired" -> 3
      [] o.exc = "ConnectionError" -> 4
      [] OTHER -> o.status

\* C8: a further attempt is made only after an HTTP 503 or a connection
\* error; any other outcome ends the call, and the status code returned is
\* 1 for a timeout, 2 for a protocol error, 3 for an invalid URL, 4 for a
\* connection error and the HTTP status otherwise.
C8_RetryOnlyAfterBusyOrConnError ==
    \A t \in Workers :
        /\ (rq[t].attempts >= 1 /\ rq[t].pc \in {"top", "install", "get"}) =>
              \/ rq[t].lastout.exc = "ConnectionError"
              \/ rq[t].lastout.exc = "none" /\ rq[t].lastout.status = 503
        /\ Finished(t) => rq[t].scode = C8_Code(rq[t].lastout)
        /\ rq[t].pc = "done" =>
              rq[t].result.status_code = C8_Code(rq[t].lastout)

\* a call whose second attempt timed out: it returned 1 without a third
C8_Witness ==
    \E t \in Workers :
        /\ rq[t].pc = "done"
        /\ rq[t].max_retries >= 2
        /\ rq[t].attempts = 2
        /\ rq[t].lastout.exc = "Timeout"
        /\ rq[t].result.status_code = 1

\* C9: once an attempt has failed with a connection error the failed session
\* is no longer the shared one, and the call's next attempt with session
\* reuse enabled does not reuse it: it runs on a session that is not the
\* failed one, created and installed by this attempt when it found none.
C9_SessionRenewed ==
    \A t \in Workers :
        /\ rq[t].failed # NoSession => SESSION # rq[t].failed
        /\ (~no_sessions /\ Attempting(t)
                /\ rq[t].lastout.exc = "ConnectionError") =>
              /\ rq[t].s # NoSession
              /\ rq[t].s # rq[t].failed
              /\ rq[t].seen = NoSession => rq[t].created

\* the attempt after a connection error runs on a session it has created
\* and installed
C9_Witness ==
    \E t \in Workers :
        /\ ~no_sessions
        /\ rq[t].pc = "get"
        /\ rq[t].lastout.exc = "ConnectionError"
        /\ rq[t].failed # NoSession
        /\ rq[t].created
        /\ SESSION = rq[t].s
        /\ rq[t].s # rq[t].failed

(***************************************************************************)
(* Properties of the node server manager and the controller callbacks.     *)
(***************************************************************************)
\* C1 (as claimed): every REST call message that carried a seq and whose
\* call has returned while its node server was registered and alive has had
\* its result handed to the node server's transport
C1_ExactlyOneResult ==
    \A n \in Servers :
       LET lr == ns[n].lastret IN
       (lr.seq # NoSeq /\ lr.alive) => lr.out \in {"queued", "published"}

\* the messages of controller callbacks the transport of n has been handed
CallbackMsgs(n) ==
    Len(SelectSeq(ns[n].inq \o ns[n].childin \o ns[n].published,
                  LAMBDA m : m.cmd \in {"query", "cmd"}))

\* C4: a message of a callback is handed to a node server only in a step of
\* a handler that found this node server and has finished its 200 reply
\* before; the step of a handler that replied 404 changes no node server
C4_ReplyBeforeForward ==
    [][\A n \in Servers, h \in Callbacks :
          /\ CallbackMsgs(n)' > CallbackMsgs(n) =>
                \E g \in Callbacks :
                   /\ hq[g].pc = "replied" /\ hq'[g].pc = "done"
                   /\ hq[g].reply = HttpOK
                   /\ hq[g].node_server = n
          /\ (hq[h].pc = "replied" /\ hq'[h].pc = "done"
                 /\ hq[h].reply = HttpNotFound) => ns' = ns
          /\ hq'[h].reply # NoReply =>
                hq'[h].reply = (IF hq'[h].base \in servers
                                THEN HttpOK ELSE HttpNotFound)]_vars

\* a callback for a registered base has been answered 200 and its message
\* queued, another for an unknown base answered 404 and finished
C4_Witness ==
    \E g, h \in Callbacks :
       /\ hq[g].pc = "done" /\ hq[g].reply = HttpOK /\ hq[g].out = "queued"
       /\ CallbackMsgs(hq[g].node_server) = 1
       /\ hq[h].pc = "done" /\ hq[h].reply = HttpNotFound

\* C5 (as claimed): unload() makes at most NS_QUIT_WAIT_TIME polling rounds
\* and when it has ended no registered node server's process is running
C5_UnloadLeavesNoneRunning ==
    /\ ul.timer <= NS_QUIT_WAIT_TIME
    /\ ul.pc \in {"done", "raised"} =>
          \A n \in servers : ns[n].proc # "running"

C10_FirstAnnouncerRecorded ==
    NSMGR = IF announced = << >> THEN NoMgr ELSE announced[1]

\* C10 (amended): the recorded manager is the node server that announced
\* IAmManager last
C10_LastAnnouncerRecorded ==
    NSMGR = IF announced = << >> THEN NoMgr ELSE announced[Len(announced)]

\* two node servers have announced IAmManager, the second is recorded
C10_Witness ==
    /\ Len(announced) = 2
    /\ announced[1] # announced[2]
    /\ NSMGR = announced[2]

\* C11 (as claimed): the counters are reset by a line of a node server only
\* when this node server is the recorded manager
C11_ResetOnlyForManager ==
    \A n \in Servers :
       (ns[n].reset.done /\ ns[n].reset.ntotal > 0) => ns[n].reset.priv

(***************************************************************************)
(* SpecRegistry: node servers are started and deleted while they run, end  *)
(* and are checked for liveness.                                           *)
(***************************************************************************)
InitRegistry ==
    /\ PG_RETRIES = -1
    /\ no_sessions = FALSE
    /\ SESSION = NoSession
    /\ SLOCK = NoThread
    /\ STATS = ZeroStats
    /\ ncalls = 0
    /\ rq = [t \in Workers |-> IdleFrame]
    /\ servers = {1}
    /\ ns = [n \in Servers |->
                IF n = 1 THEN NewServer(n, "Default", TRUE) ELSE NoProcess(n)]
    /\ NSMGR = NoMgr
    /\ now = 0
    /\ nlines = 0
    /\ ul = IdleUnload
    /\ hq = [h \in Callbacks |-> NewHandler]
    /\ announced = << >>
    /\ mg = IdleMgr
    /\ cf = NewConfig(<< >>, << >>)
    /\ px = NewAddress(1, << >>)
    /\ api = NewApi

RegistryLines == {Line("exit"), Line("connected")}

NextRegistry ==
    \/ \E base \in Servers \cup {NoServer}, p \in Servers,
          fails \in BOOLEAN :
          StartServer(base, p, "Default", TRUE, fails)
    \/ \E b \in Servers : DeleteCall(b)
    \/ \E b \in Servers : DeleteUnknown(b)
    \/ DeletePoll
    \/ DeleteRemove
    \/ \E n \in servers \cap {1} :
          \/ \E m \in RegistryLines : RecvOut(n, m)
          \/ ProcExit(n)
          \/ SendInWrite(n)
          \/ SendInEmpty(n)
    \/ Tick

SpecRegistry == InitRegistry /\ [][NextRegistry]_vars

\* a step that is a call of start_server with a base already registered
StartsDuplicate == mg'.last # mg.last /\ mg'.last.dup

\* C12 (as claimed): start_server with a base that is already in the
\* registry is rejected: nothing is spawned, nothing is added, the existing
\* record is unchanged.
C12_DuplicateRejected ==
    [][StartsDuplicate => (servers' = servers /\ ns' = ns)]_vars

\* C12 (amended): start_server with a base that is already in the registry
\* leaves the existing record unchanged; unless the start fails it spawns a
\* new node server and adds its record under a new random base that was not
\* in the registry.
C12_DuplicateRekeyed ==
    [][StartsDuplicate =>
          /\ ns'[mg'.last.base] = ns[mg'.last.base]
          /\ IF mg'.last.raised
             THEN servers' = servers /\ ns' = ns
             ELSE /\ mg'.last.key \notin servers
                  /\ servers' = servers \cup {mg'.last.key}
                  /\ ns'[mg'.last.key].proc = "running"]_vars

C12_Witness ==
    /\ mg.last.called /\ mg.last.dup /\ ~mg.last.raised
    /\ mg.last.key \in servers /\ mg.last.base \in servers
    /\ mg.last.key # mg.last.base

\* node server n is in the grace window after its exit was requested
InGrace(n) == mg.pc = "del_poll" /\ mg.base = n

\* the process or the broker session of node server n is active
Active(n) ==
    \/ ns[n].proc = "running"
    \/ ~ns[n].mqtt_none /\ ns[n].mqtt_connected

\* C13 (as claimed): a record is in the registry if and only if its process
\* or broker session is active or it is in the grace window after exit was
\* requested; a record whose child has exited or was killed as unresponsive
\* does not stay.
C13_RegisteredIffActive ==
    \A n \in Servers : n \in servers <=> (Active(n) \/ InGrace(n))

\* C13 (amended): a record leaves the registry only when delete() for its
\* base removes it; a record whose child has exited or was killed as
\* unresponsive stays in the registry.
C13_LeavesOnlyByDelete ==
    [][\A n \in Servers :
          (n \in servers /\ n \notin servers') =>
             (mg.pc = "del_rm" /\ mg.base = n)]_vars

C13_Witness ==
    \E n \in servers :
       /\ ns[n].proc = "dead" /\ ns[n].killed # NoKill
       /\ ~InGrace(n) /\ mg.pc = "idle"

(***************************************************************************)
(* SpecConfig: two threads write, update and read the configuration.       *)
(***************************************************************************)
InitConfig ==
    /\ PG_RETRIES = -1
    /\ no_sessions = FALSE
    /\ SESSION = NoSession
    /\ SLOCK = NoThread
    /\ STATS = ZeroStats
    /\ ncalls = 0
    /\ rq = [t \in Workers |-> IdleFrame]
    /\ servers = Servers
    /\ ns = [n \in Servers |-> NewServer(n, "Default", TRUE)]
    /\ NSMGR = NoMgr
    /\ now = 0
    /\ nlines = 0
    /\ ul = IdleUnload
    /\ hq = [h \in Callbacks |-> NewHandler]
    /\ announced = << >>
    /\ mg = IdleMgr
    /\ \E http \in Passwords, isy \in Passwords : cf = NewConfig(http, isy)
    /\ px = NewAddress(1, << >>)
    /\ api = NewApi

NextConfig ==
    \E t \in Writers :
       \/ WriteCall(t)
       \/ WriteTest(t)
       \/ WriteSet(t)
       \/ WriteDump(t)
       \/ \E stage \in {"encode", "dump"} : WriteFail(t, stage)
       \/ WriteRelease(t)
       \/ \E http \in {<< >>, <<97>>} : ConfigUpdate(t, http)
       \/ ConfigRead(t)

SpecConfig == InitConfig /\ [][NextConfig]_vars

\* the threads inside the section of write() that dumps the file
InDump == {t \in Writers : cf.w[t].pc \in {"dump", "release"}}

\* C14 (as claimed): whatever the interleaving of concurrent write() calls,
\* at most one thread at a time is between taking and releasing the writer
\* flag.
C14_OneWriterInside == Cardinality(InDump) <= 1

\* a step of write(), from its call to the release of the flag
WriteStep ==
    \E t \in Writers : cf.w[t].pc \in {"test", "set", "dump", "release"}
                       /\ cf'.w[t].pc # cf.w[t].pc

\* the password stored is the base64 text of the clear one and decodes to it
StoredEncoded(stored, clear) ==
    /\ stored = B64Encode(clear)
    /\ B64Valid(stored) /\ B64Decode(stored) = clear
    /\ clear # << >> => stored # clear

\* C15: decode(encode(cfg)) = cfg for every configuration tree; the tree
\* write() puts on disk holds both passwords in their encoded form, never
\* as clear text, and write() leaves the clear passwords in memory as they
\* are.
C15_RoundTripAndEncodedOnDisk ==
    /\ [](Decode(Encode(cf.mem)) = cf.mem)
    /\ [](cf.file.written =>
            /\ StoredEncoded(cf.file.tree.http, cf.file.of.http)
            /\ StoredEncoded(cf.file.tree.isy, cf.file.of.isy))
    /\ [][WriteStep => cf'.mem = cf.mem]_vars

C15_Witness ==
    /\ cf.file.written
    /\ Len(cf.file.of.http) = 2 /\ Len(cf.file.of.isy) = 3
    /\ cf.mem = cf.file.of
    /\ \A t \in Writers : cf.w[t].pc = "idle"

\* the step reads a malformed line of node server n
BadLineStep(n) == ns'[n].nbad = ns[n].nbad + 1

LineStep(n) == nlines' = nlines + 1 /\ ns'[n].line.no = nlines'

InitPrefix ==
    /\ PG_RETRIES = -1
    /\ no_sessions = FALSE
    /\ SESSION = NoSession
    /\ SLOCK = NoThread
    /\ STATS = ZeroStats
    /\ ncalls = 0
    /\ rq = [t \in Workers |-> IdleFrame]
    /\ servers = Servers
    /\ ns = [n \in Servers |-> NewServer(n, "Default", TRUE)]
    /\ NSMGR = NoMgr
    /\ now = 0
    /\ nlines = 0
    /\ ul = IdleUnload
    /\ hq = [h \in Callbacks |-> NewHandler]
    /\ announced = << >>
    /\ mg = IdleMgr
    /\ cf = NewConfig(<< >>, << >>)
    /\ \E p \in Profiles, a \in Addresses : px = NewAddress(p, a)
    /\ api = NewApi

NextPrefix == AddressOut \/ AddressBack

SpecPrefix == InitPrefix /\ [][NextPrefix]_vars

\* C19: for every profile number p of one to three digits and every node
\* address a, the empty one included,
\* rem_node_prefix(add_node_prefix(p, a)) = a.
C19_PrefixRoundTrip ==
    /\ px.pc # "new" => Len(px.sent) = PrefixLen + Len(px.a)
    /\ px.pc = "back" => px.back = px.a

C19_Witness ==
    /\ px.pc = "back" /\ px.p < 10 /\ px.a = <<"n", "0", "_">>
    /\ px.sent = <<"n", "0", "0", "7", "_", "n", "0", "_">>

\* C20 (as claimed): get_stats returns a snapshot of the counters as they
\* were when the mutex was held: the record the caller has is changed
\* neither by the reset of the same call nor by requests that complete
\* afterwards.
C20_ReturnsSnapshot ==
    \A t \in Workers : rq[t].used => rq[t].got = rq[t].snap

(***************************************************************************)
(* SpecRestart: a node server asks for REST calls and is restarted.        *)
(***************************************************************************)
RestartLines ==
    {Line("exit")} \cup {Msg("status", sq, TRUE, "") : sq \in {1, 2}}

NextRestart ==
    \/ \E m \in RestartLines : RecvOut(1, m)
    \/ PutDone(1)
    \/ PutTimeout(1)
    \/ ProcExit(1)
    \/ ReqHandlerGet(1)
    \/ ReqHandlerReturn(1, HttpOK)
    \/ SendInWrite(1)
    \/ RestartCall(1)
    \/ RestartPoll
    \/ \E raced \in BOOLEAN : RestartStart(raced)
    \/ OldReturn(1, HttpOK)
    \/ OldGet(1)
    \/ StdinEnds(1)
    \/ OldSendInWrite(1)
    \/ OldStdinEnds(1)

InitRestart ==
    /\ PG_RETRIES = -1
    /\ InitRest
    /\ InitNodeIdle

SpecRestart == InitRestart /\ [][NextRestart]_vars

\* the REST calls of node server n that are in flight
InFlight(n) ==
    (IF ns[n].req_thread = "call" THEN 1 ELSE 0)
    + (IF ns[n].old_thread = "call" THEN 1 ELSE 0)

\* C18 (as claimed): the REST calls of a node server are made one at a
\* time, in the order its lines were read, and their results are delivered
\* in that order, also after restart().
C18_OneCallInOrder ==
    \A n \in Servers : InFlight(n) <= 1 /\ ~ns[n].outoforder

(***************************************************************************)
(* Further properties of the REST client and the node server manager.      *)
(***************************************************************************)
\* C22 (as claimed): the text of a result record is non-null only when the
\* caller requested the body: a call made without text_needed returns a
\* null text whatever the outcome of its attempts, connection errors
\* included, and no attempt of such a call leaves a text behind.
C22_TextOnlyWhenRequested ==
    \A t \in Workers :
        /\ (Finished(t) /\ ~rq[t].text_needed) => rq[t].text = "null"
        /\ (rq[t].pc = "done" /\ ~rq[t].text_needed) =>
              rq[t].result.text = "null"

\* worker t invalidates the shared session in this step: its attempt ends
\* in a connection error
Invalidates(t) ==
    /\ rq[t].pc = "get"
    /\ rq'[t].attempts = rq[t].attempts + 1
    /\ rq'[t].lastout.exc = "ConnectionError"

\* C26 (as claimed): reads and replacements of the shared session are
\* mutually exclusive: two calls that both found no session never both
\* create one and stand before installing it, and the invalidation by a call
\* whose attempt failed never discards a session that another call has
\* installed in place of the one the attempt ran on.
C26_SessionExclusive ==
    /\ [](\A t, u \in Workers :
            (rq[t].pc = "install" /\ rq[u].pc = "install") => t = u)
    /\ [][\A t \in Workers :
            (Invalidates(t) /\ SESSION # NoSession /\ SESSION # rq[t].s)
                => SESSION' = SESSION]_vars

\* C27 (as claimed): a write() that is skipped because the flag stayed set,
\* or that fails part-way with an I/O or encoding error, leaves the writer
\* flag clear: the flag is set only while some thread is between taking and
\* releasing it, so a later write() finds it clear and persists the state.
C27_FlagClearAfterWrite == cf.writing => InDump # {}

\* C23 (as claimed): responding reports the node server as responsive
\* exactly when no ping is outstanding or a pong later than the last ping
\* has arrived, and as not responsive in every other state.
C23_RespondingIffAnswered ==
    \A n \in Servers :
       LET c == ns[n].checked IN
       c.done => (c.ok <=> (~c.outstanding \/ c.newer))

\* C23 (amended): responding reports the node server as not responsive
\* exactly when a ping has been sent, PingExpiry seconds or more have passed
\* since the last one, no pong later than it has been recorded and, with an
\* MQTT transport, the broker and the node are connected; in every other
\* state (a ping still outstanding but younger than PingExpiry included) it
\* reports the node server as responsive.
C23_SilentIffExpiredUnanswered ==
    \A n \in Servers :
       LET c == ns[n].checked IN
       c.done => (~c.ok <=> (~c.first /\ c.expired /\ ~c.newer /\ c.linked))

\* responding has answered True with a ping outstanding and no pong, the
\* ping being younger than PingExpiry
C23_Witness ==
    \E n \in Servers :
       LET c == ns[n].checked IN
       /\ c.done /\ c.ok
       /\ c.outstanding /\ ~c.newer /\ ~c.expired /\ ~c.first

\* C24 (as claimed): a node server that answers every ping with a pong
\* before PingExpiry seconds have passed is never declared unresponsive and
\* killed, whatever the interleaving of the pong's arrival with the sending
\* of the ping and the recording of its time by the stdin thread or by
\* another thread that evaluates responding.
C24_ResponsiveChildNotKilled ==
    \A n \in Servers :
       ns[n].killed = NoKill /\ ns[n].proc = "running"

\* the stdin threads of node server n that are in their loop on its
\* current outbound queue
StdinWorkers(n) ==
    IF ns[n].inq_none THEN 0
    ELSE (IF ns[n].stdin_thread = "stdio" THEN 1 ELSE 0)
         + (IF ns[n].old_stdin = "stdio" THEN 1 ELSE 0)

\* the request threads of node server n that wait for, or work on, a
\* message of its current request queue
RequestWorkers(n) ==
    IF ns[n].rqq_none THEN 0
    ELSE (IF ns[n].req_thread \in {"wait", "call"} THEN 1 ELSE 0)
         + (IF ns[n].old_thread = "wait" THEN 1 ELSE 0)

\* C25 (as claimed): in every reachable state, also after restart() and
\* after a node server was declared dead, at most one stdin thread consumes
\* the current outbound queue of a node server and at most one request
\* thread consumes its current request queue.
C25_OneWorkerPerQueue ==
    \A n \in Servers : StdinWorkers(n) <= 1 /\ RequestWorkers(n) <= 1

\* the exit line of node server n is handled in this step
ExitStep(n) ==
    /\ ns'[n].line # ns[n].line
    /\ ns'[n].line.cmd = "exit"

\* C28 (as claimed): when a node server sends exit, every outbound message
\* enqueued for it before the exit was handled is written out before the
\* transport is closed and the process is terminated.
C28_DrainedBeforeExit ==
    \A n \in Servers : ns[n].line.cmd = "exit" => ns[n].undelivered = 0

\* C28 (amended): when a node server sends exit, the process is killed and
\* both queues are discarded at once: the outbound messages that wait at
\* that moment are not written, neither in the step that handles the exit
\* nor afterwards while the node server has no outbound queue.
C28_ExitDiscardsOutbound ==
    [][\A n \in Servers :
          /\ ExitStep(n) =>
                /\ ns'[n].proc = "dead"
                /\ ns'[n].inq_none /\ ns'[n].rqq_none
                /\ ns'[n].childin = ns[n].childin
                /\ ns'[n].undelivered = Len(ns[n].inq)
          /\ (ns[n].inq_none /\ ns'[n].inq_none) =>
                ns'[n].childin = ns[n].childin]_vars

\* an exit line was handled while outbound messages were waiting, and they
\* have not reached the node server
C28_Witness ==
    \E n \in Servers :
       /\ ns[n].line.cmd = "exit"
       /\ ns[n].undelivered >= 1
       /\ ns[n].inq_none /\ ns[n].proc = "dead"
       /\ Len(ns[n].childin) = 0

(***************************************************************************)
(* SpecExit: a node server sends its configuration while restart() sends   *)
(* it the exit command and starts it again.                                *)
(***************************************************************************)
ConfigArgs == {"c1", "c2"}

ExitLines == {Line("exit")} \cup {Msg("config", NoSeq, TRUE, a) : a \in ConfigArgs}

InitExit ==
    /\ PG_RETRIES = -1
    /\ InitRest
    /\ InitNodeIdle

NextExit ==
    \/ \E m \in ExitLines : RecvOut(1, m)
    \/ ProcExit(1)
    \/ SendInWrite(1)
    \/ StdinEnds(1)
    \/ RestartCall(1)
    \/ RestartPoll
    \/ \E raced \in BOOLEAN : RestartStart(raced)

SpecExit == InitExit /\ [][NextExit]_vars

\* a config line of node server n is handled in this step
ConfigStep(n) ==
    /\ ns'[n].line # ns[n].line
    /\ ns'[n].line.cmd = "config"

\* C30 (as claimed): a config message received from a node server after
\* exit has been sent to it is dropped: the stored config stays as it was
\* and no persist of the configuration is triggered.
C30_LateConfigDropped ==
    /\ [](\A n \in Servers : ns[n].latesaves = 0)
    /\ [][\A n \in Servers :
            (ConfigStep(n) /\ ns[n].exit_sent) =>
                ns'[n].config = ns[n].config]_vars

\* C30 (amended): a config message received from a node server is handled
\* in the same way before and after exit has been sent to it: the stored
\* config is replaced by the message's and a persist of the configuration
\* is triggered.
C30_LateConfigStored ==
    [][\A n \in Servers :
          ConfigStep(n) =>
             /\ ns'[n].config \in ConfigArgs
             /\ ns'[n].saves = ns[n].saves + 1
             /\ ns'[n].latesaves =
                   ns[n].latesaves + (IF ns[n].exit_sent THEN 1 ELSE 0)]_vars

\* a config line was handled after the exit command had been queued for
\* the node server: the config is stored and a persist was triggered
C30_Witness ==
    \E n \in Servers :
       /\ ns[n].exit_sent
       /\ ns[n].line.cmd = "config"
       /\ ns[n].latesaves >= 1
       /\ ns[n].config \in ConfigArgs

\* the request thread of node server n takes a REST message whose arguments
\* do not fit its handler in this step
TakesBadArgs(n) ==
    /\ ns[n].req_thread = "wait"
    /\ ~ns[n].rqq_none /\ ns[n].rqq # << >>
    /\ ~Head(ns[n].rqq).ok
    /\ ns'[n].rqq = Tail(ns[n].rqq)

\* C29 (as claimed): a REST message with a missing or unexpected parameter,
\* and a message with an unknown or unsupported command (install included),
\* is dropped without a REST call, and no worker stops: the request thread
\* goes on to wait for the next message and the reader reads on.
C29_BadMessageDropped ==
    [][\A n \in Servers :
          /\ TakesBadArgs(n) =>
                /\ ns'[n].req_thread = "wait"
                /\ ns'[n].cur = NoMsg
                /\ STATS' = STATS
          /\ (LineStep(n) /\ ns'[n].line.out \in {"bad", "raised"}) =>
                /\ ns'[n].stdout_thread = "reading"
                /\ ns'[n].rqq = ns[n].rqq
                /\ STATS' = STATS]_vars

\* the reader of node server n handles a line, or ends its wait for the
\* request queue, in this step
ReaderStep(n) ==
    \/ LineStep(n)
    \/ ns[n].stdout_thread = "blocked" /\ ns'[n].stdout_thread # "blocked"

\* C21 (as claimed): when the request queue of a node server is full the
\* router makes room by dropping what is queued, the oldest entry first,
\* and queues the new message; it neither blocks the stdout reader nor
\* fails with an error.
C21_DropsOldestNeverBlocks ==
    /\ [](\A n \in Servers :
            ns[n].stdout_thread # "blocked" /\ ns[n].putout # "full")
    /\ [][\A n \in Servers :
            (LineStep(n) /\ ns'[n].line.cmd \in RestCmds
                  /\ ~ns[n].rqq_none /\ Len(ns[n].rqq) >= RqqSize) =>
               ns'[n].rqq = Append(Tail(ns[n].rqq), ns'[n].rqq[RqqSize])]_vars

\* C21 (amended): the request queue never holds more than its limit, only
\* REST commands enter it (statistics requests never do), and the reader
\* drops nothing that is queued: a REST message that finds the queue full
\* is held by the reader, which blocks; it is put on the queue once the
\* request thread has taken a message, or is lost with the queue-full error
\* when the queue stays full.
C21_BlocksThenFails ==
    /\ [](\A n \in Servers :
            /\ Len(ns[n].rqq) <= RqqSize
            /\ \A i \in DOMAIN ns[n].rqq : ns[n].rqq[i].cmd \in RestCmds
            /\ ns[n].stdout_thread = "blocked" <=> ns[n].pending # NoMsg)
    /\ [][\A n \in Servers :
            /\ (LineStep(n) /\ ns'[n].line.cmd \in RestCmds
                  /\ ~ns[n].rqq_none /\ Len(ns[n].rqq) >= RqqSize) =>
                  /\ ns'[n].stdout_thread = "blocked"
                  /\ ns'[n].pending.cmd = ns'[n].line.cmd
                  /\ ns'[n].rqq = ns[n].rqq
            /\ (ReaderStep(n) /\ ns'[n].line.cmd # "exit") =>
                  \/ ns'[n].rqq = ns[n].rqq
                  \/ /\ Len(ns[n].rqq) < RqqSize
                     /\ \E m \in {ns[n].pending, ns'[n].rqq[Len(ns'[n].rqq)]} :
                           ns'[n].rqq = Append(ns[n].rqq, m)
            /\ (ns[n].stdout_thread = "blocked"
                  /\ ns'[n].stdout_thread # "blocked"
                  /\ ns'[n].proc = ns[n].proc) =>
                  \/ /\ ns'[n].putout = "waited"
                     /\ Len(ns[n].rqq) < RqqSize
                     /\ ns'[n].rqq = Append(ns[n].rqq, ns[n].pending)
                  \/ /\ ns'[n].putout = "full"
                     /\ ns'[n].rqq = ns[n].rqq]_vars

\* the reader has waited with a message for the full request queue and has
\* lost it: the queue is still full of the messages queued before
C21_Witness ==
    \E n \in Servers :
       /\ ns[n].putout = "full"
       /\ ns[n].line.out = "blocked"
       /\ ~ns[n].rqq_none /\ Len(ns[n].rqq) = RqqSize
       /\ ns[n].pending = NoMsg

(***************************************************************************)
(* SpecPrivilege: the node servers announce themselves as manager, clear   *)
(* the statistics, end, and are restarted.                                 *)
(***************************************************************************)
PrivilegeLines ==
    {Msg("manager", NoSeq, TRUE, op) : op \in {"IAmManager", "ClearStatistics"}}
    \cup {Line("exit")}

NextPrivilege ==
    \/ \E n \in Servers :
          \/ \E m \in PrivilegeLines : RecvOut(n, m)
          \/ ProcExit(n)
          \/ SendInWrite(n)
          \/ RestartCall(n)
    \/ RestartPoll
    \/ \E raced \in BOOLEAN : RestartStart(raced)

SpecPrivilege == InitServers /\ [][NextPrivilege]_vars

\* C31: the recorded manager changes only in the step that handles a
\* server's IAmManager, which records that server; a step in which a
\* process ends, is killed or is started again, or in which restart() moves
\* on, leaves the recorded manager as it was.
C31_PrivilegeSurvivesLifecycle ==
    [][/\ NSMGR' # NSMGR =>
            /\ announced' = Append(announced, NSMGR')
            /\ nlines' = nlines + 1
            /\ ns'[NSMGR'].line = [no |-> nlines', cmd |-> "manager",
                                   out |-> "handled"]
       /\ (mg' # mg \/ \E n \in Servers :
                          /\ ns'[n].proc # ns[n].proc
                          /\ ns'[n].line.cmd # "manager")
             => NSMGR' = NSMGR]_vars

\* the recorded manager has been restarted and is still the manager; its
\* ClearStatistics has reset the counters
C31_Witness ==
    \E n \in Servers :
       /\ NSMGR = n
       /\ ns[n].mgr_at_start
       /\ ns[n].proc = "running"
       /\ mg.pc = "idle" /\ mg.restarts > 0
       /\ ns[n].line.no = nlines
       /\ ns[n].reset.done /\ ns[n].reset.priv

(***************************************************************************)
(* SpecPong: a node server sends pongs between its REST messages while     *)
(* its REST calls are queued and made.                                     *)
(***************************************************************************)
PongLines ==
    {Line("pong")} \cup {Msg("status", sq, TRUE, "") : sq \in {NoSeq, 1}}

NextPong ==
    \/ \E m \in PongLines : RecvOut(1, m)
    \/ PutDone(1)
    \/ PutTimeout(1)
    \/ ReqHandlerGet(1)
    \/ ReqHandlerReturn(1, HttpOK)
    \/ SendInWrite(1)

SpecPong == InitServers /\ [][NextPong]_vars

\* C32 as stated: the reader of a running node server is always free to
\* take the next line, so a pong is handled whatever the number of that
\* server's REST calls queued or in flight.
C32_PongNeverDelayed ==
    \A n \in Servers :
       ns[n].proc = "running" => ns[n].stdout_thread = "reading"

\* C32, amended: the step that handles a pong stores the time of the pong
\* and touches neither the request queue nor the request thread, and the
\* reader stops taking lines only in a step that finds the request queue
\* full (RqqSize messages), where it waits with the REST message in hand.
C32_PongDelayedOnlyByFullQueue ==
    [][\A n \in Servers :
         /\ (LineStep(n) /\ ns'[n].line.cmd = "pong") =>
               /\ ns'[n].lastpong = now
               /\ ns'[n].rqq = ns[n].rqq
               /\ ns'[n].req_thread = ns[n].req_thread
               /\ ns'[n].cur = ns[n].cur
               /\ ns'[n].stdout_thread = "reading"
         /\ (ns[n].stdout_thread = "reading"
              /\ ns'[n].stdout_thread # "reading") =>
               /\ Len(ns[n].rqq) >= RqqSize
               /\ ns'[n].pending.cmd \in RestCmds]_vars

\* a pong has been handled while a REST call of the same node server was
\* in flight and another was queued
C32_Witness ==
    /\ ns[1].line.cmd = "pong" /\ ns[1].line.no = nlines
    /\ ns[1].lastpong # NoTime
    /\ ns[1].req_thread = "call"
    /\ Len(ns[1].rqq) >= 1

(***************************************************************************)
(* SpecSpawn: restart() with start() in two steps, while the node server   *)
(* writes lines and its threads run.                                       *)
(***************************************************************************)
SpawnLines == {Line("statistics"), Msg("status", 1, TRUE, "")}

NextSpawn ==
    \/ \E m \in SpawnLines : RecvOut(1, m)
    \/ ReqHandlerGet(1)
    \/ ReqHandlerReturn(1, HttpOK)
    \/ SendInWrite(1)
    \/ RestartCall(1)
    \/ RestartPoll
    \/ \E raced \in BOOLEAN : StartSpawn(raced)
    \/ StartSend

SpecSpawn == InitServers /\ [][NextSpawn]_vars

\* C33: of the messages written to the process of a node server, the first
\* is params and the second is config.
C33_ParamsConfigFirst ==
    \A n \in Servers :
       LET sent == ns[n].childin IN
       /\ Len(sent) >= 1 => sent[1].cmd = "params"
       /\ Len(sent) >= 2 => sent[2].cmd = "config"

(***************************************************************************)
(* SpecTwin: a node server on stdio and one with the MQTT subsystem are    *)
(* sent the same messages by their children, line for line.                *)
(***************************************************************************)
InitTwin ==
    /\ PG_RETRIES = -1
    /\ InitRest
    /\ InitNode
    /\ ns = [n \in Servers |->
                IF n = 1 THEN NewServer(n, "Default", TRUE)
                ELSE NewServer(n, "mqtt", FALSE)]

TwinLines ==
    {Line("pong"), Line("connected"), Line("disconnected"), Line("unknown"),
     Msg("config", NoSeq, TRUE, "c1"), Msg("status", 1, TRUE, ""),
     Msg("status", NoSeq, TRUE, "")}

NextTwin ==
    \/ \E m \in TwinLines : RecvBoth(m)
    \/ \E n \in Servers :
          \/ ReqHandlerGet(n)
          \/ ReqHandlerReturn(n, HttpOK)
          \/ SendInWrite(n)
          \/ \E up \in BOOLEAN : MqttConnection(n, up)

SpecTwin == InitTwin /\ [][NextTwin]_vars

\* the messages node server r has handed to a transport, queue or broker
Handed(r) == Len(r.childin) + Len(r.inq) + Len(r.published)

\* what became of the last line of r, a wait for a free slot of the request
\* queue counted as queued
Outcome(r) == IF r.line.out = "blocked" THEN "queued" ELSE r.line.out

\* the REST messages r has accepted for its request thread
Accepted(r) == r.unfinished + (IF r.pending = NoMsg THEN 0 ELSE 1)

\* C34: the step that handles the same message of both node servers makes
\* the same of it (handled, queued, bad or raised), stores the same values,
\* accepts the same REST message and hands as many messages to a transport;
\* and the result of a REST call goes out whichever the transport.
C34_TransportsInterchangeable ==
    [][/\ nlines' = nlines + 1 =>
            /\ Outcome(ns'[1]) = Outcome(ns'[2])
            /\ ns'[1].config = ns'[2].config
            /\ ns'[1].lastpong = ns'[2].lastpong
            /\ ns'[1].node_connected = ns'[2].node_connected
            /\ Handed(ns'[1]) - Handed(ns[1])
                  = Handed(ns'[2]) - Handed(ns[2])
            /\ Accepted(ns'[1]) - Accepted(ns[1])
                  = Accepted(ns'[2]) - Accepted(ns[2])
       /\ \A n \in Servers :
            ns'[n].lastret # ns[n].lastret /\ SeqTruthy(ns'[n].lastret.seq)
               => ns'[n].lastret.out \in {"queued", "published"}]_vars

(***************************************************************************)
(* SpecApi: two threads of a node server register callbacks while results  *)
(* come in.                                                                *)
(***************************************************************************)
InitApi ==
    /\ PG_RETRIES = -1
    /\ InitRest
    /\ InitNodeIdle

NextApi ==
    \/ \E t \in Workers :
          \/ RegAcquire(t)
          \/ RegBump(t)
          \/ RegRead(t)
          \/ RegRelease(t)
          \/ RegStore(t)
          \/ RegReturn(t)
    \/ \E seq \in ResultSeqs : OnResultTest(seq)
    \/ OnResultPop

SpecApi == InitApi /\ [][NextApi]_vars

\* C35: the numbers read from the counter are 1001, 1002, ... in the order
\* of the reads, whichever thread reads; the numbers returned are pairwise
\* distinct, each above 1000 and above every number that had been returned
\* when its call began, and each has its callback in the table when it is
\* returned.
C35_SeqDistinctIncreasingRegistered ==
    /\ \A i \in DOMAIN api.handed : api.handed[i] = SeqStart + i
    /\ \A i \in DOMAIN api.issued :
          /\ api.issued[i].s > SeqStart
          /\ api.issued[i].registered
          /\ \A j \in 1..api.issued[i].before :
                api.issued[j].s < api.issued[i].s
          /\ \A j \in DOMAIN api.issued :
                i # j => api.issued[i].s # api.issued[j].s

\* two calls that overlapped have returned, the one that took the lock
\* second first, and a third call that began after both has returned
C35_Witness ==
    /\ Len(api.issued) >= 3
    /\ api.issued[1].s = SeqStart + 2
    /\ api.issued[2].s = SeqStart + 1
    /\ api.issued[3].before = 2

\* C36: no callback is invoked twice; the step that invokes the callback of
\* a seq finds it in the table and removes it; and a result whose seq is not
\* in the table is counted as an error, invokes nothing and leaves the
\* table as it was.
C36_CallbackAtMostOnce ==
    /\ [](\A i \in DOMAIN api.invoked : \A j \in DOMAIN api.invoked :
             i # j => api.invoked[i] # api.invoked[j])
    /\ [][/\ api'.invoked # api.invoked =>
               /\ api'.invoked = Append(api.invoked, api.th[1].seq)
               /\ api.th[1].seq \in api.cb
               /\ api'.cb = api.cb \ {api.th[1].seq}
               /\ api'.errors = api.errors
          /\ api'.nres # api.nres =>
               /\ api'.invoked = api.invoked /\ api'.cb = api.cb
               /\ IF api'.th[1].seq \in api.cb
                  THEN api'.th[1].pc = "pop" /\ api'.errors = api.errors
                  ELSE api'.th[1].pc = "idle"
                       /\ api'.errors = api.errors + 1]_vars

\* the callback of a seq has been invoked, and a second result with that
\* seq has been reported as an error
C36_Witness ==
    /\ Len(api.invoked) = 1
    /\ api.errors = 1 /\ api.nres = 2
    /\ api.th[1].pc = "idle"
    /\ api.th[1].seq = api.invoked[1]

(***************************************************************************)
(* SpecRestcall: one caller of restcall(), every retry limit of the        *)
(* environment and every upstream outcome.                                 *)
(***************************************************************************)
NextRestcall ==
    /\ \/ \E sq \in 0..1, nr \in BOOLEAN : RestCall(1, sq, nr)
       \/ ReqLoopTop(1)
       \/ ReqInstallSession(1)
       \/ \E o \in Outcomes, el \in 1..MaxElapsed : ReqAttempt(1, o, el)
       \/ ReqStatsBegin(1)
       \/ ReqReturn(1)
       \/ ReqDone(1)
    /\ UNCHANGED nsvars

SpecRestcall == InitRetry /\ [][NextRestcall]_vars

\* C37: a call of restcall() with noretry=True returns after one attempt
\* and reports retries = 0.
C37_NoRetryOneAttempt ==
    \A t \in Workers :
       rq[t].rc_noretry /\ rq[t].pc = "done" =>
          rq[t].attempts = 1 /\ rq[t].result.retries = 0

\* C38: the step of delete() that changes the registry removes the base the
\* call was made for and nothing else, the process of that record having
\* ended or been killed, and leaves every NodeServer object as it is; and a
\* call of delete() raises only for a base that is not registered.
C38_DeleteRemovesExactlyBase ==
    [][/\ servers' # servers /\ mg.pc = "del_rm" =>
            /\ servers' = servers \ {mg.base}
            /\ mg.base \in servers
            /\ ns[mg.base].proc # "running"
            /\ ns' = ns
       /\ mg'.del_err \notin {"none", mg.del_err} =>
            /\ mg'.del_err = "KeyError"
            /\ servers' = servers]_vars

\* C39: the on_finish step of a callback that was answered 200 hands exactly
\* one message to the transport of the node server it addressed, stdin queue
\* or broker.
C39_AcknowledgedIsForwarded ==
    [][\A h \in Callbacks :
         (hq[h].pc = "replied" /\ hq'[h].pc = "done"
          /\ hq[h].reply = HttpOK) =>
            /\ hq'[h].out \in {"queued", "published"}
            /\ Handed(ns'[hq[h].node_server])
                  = Handed(ns[hq[h].node_server]) + 1]_vars

\* C40: a node server without MQTT subsystem has nothing published to a
\* broker; the ping that answers its connected line is queued for stdin and
\* the line is handled; and the result of its last REST call with a seq,
\* returned while it was alive, was queued for stdin.
C40_StdioRoutesToStdin ==
    \A n \in Servers :
       ns[n].mqtt_none =>
          /\ ns[n].published = << >>
          /\ ns[n].line.cmd = "connected" => ns[n].line.out = "handled"
          /\ (SeqTruthy(ns[n].lastret.seq) /\ ns[n].lastret.alive) =>
                ns[n].lastret.out = "queued"

=============================================================================
